---- MODULE Spec2Model ----
(***************************************************************************)
(* CashBlocks: the block-graph to CashScript compiler                      *)
(* (src/src/compiler/BlockGraphCompiler.ts, templates.ts, address.ts).     *)
(*                                                                         *)
(* Text.  A JavaScript string is modelled as the non-empty sequence of its *)
(* lines (the string split at "\n"); a line is a sequence of string tokens *)
(* whose concatenation is the line.  The empty string is one empty line.   *)
(* Numbers interpolated into a template are tokens of their own            *)
(* (ToString), and so are the identifiers the contract declares.           *)
(***************************************************************************)
EXTENDS Integers, Sequences, FiniteSets, TLC

VARIABLES graph, pc, result, socket, storage, call, created

vars == <<graph, pc, result, socket, storage, call, created>>

(***************************************************************************)
(* Strings                                                                 *)
(***************************************************************************)
EmptyText == << <<>> >>

\* a one-line string made of the tokens toks
Str(toks) == << toks >>

\* a + b
Cat(a, b) ==
    SubSeq(a, 1, Len(a) - 1) \o << a[Len(a)] \o b[1] >> \o SubSeq(b, 2, Len(b))

\* "\n"
NL == << <<>>, <<>> >>

RECURSIVE JoinFrom(_, _, _)
JoinFrom(list, sep, i) ==
    IF i > Len(list) THEN EmptyText
    ELSE IF i = Len(list) THEN list[i]
    ELSE Cat(list[i], Cat(sep, JoinFrom(list, sep, i + 1)))

\* list.join(sep)
Join(list, sep) == JoinFrom(list, sep, 1)

\* the tokens of every line of a text, in order
RECURSIVE TokensFrom(_, _)
TokensFrom(text, i) ==
    IF i > Len(text) THEN <<>> ELSE text[i] \o TokensFrom(text, i + 1)

Tokens(text) == TokensFrom(text, 1)

I4 == "    "
I8 == "        "
I12 == "            "

\* s.replace(/^/gm, '    '): four spaces in front of every line
IndentAll(text) == [i \in 1..Len(text) |-> <<I4>> \o text[i]]

\* code.split('\n').map(line => line.replace(/^        /, '            ')).join('\n')
Reindent(text) ==
    [i \in 1..Len(text) |->
        IF Len(text[i]) > 0 /\ text[i][1] = I8
        THEN <<I12>> \o Tail(text[i])
        ELSE text[i]]

\* p.k ?? d
Get(p, k, d) == IF k \in DOMAIN p THEN p[k] ELSE d

Has(p, k) == k \in DOMAIN p

(***************************************************************************)
(* Recipient normalisation (address.ts).  A recipient string is a sequence *)
(* of one-character strings.                                               *)
(***************************************************************************)
HashHexLen == 40

LowerHex == {"0","1","2","3","4","5","6","7","8","9","a","b","c","d","e","f"}
UpperHex == {"A","B","C","D","E","F"}
HexDigits == LowerHex \cup UpperHex

\* one character of s.toLowerCase() (hexadecimal digits are the only letters lowered here)
LowerChar(c) ==
    CASE c = "A" -> "a" [] c = "B" -> "b" [] c = "C" -> "c"
      [] c = "D" -> "d" [] c = "E" -> "e" [] c = "F" -> "f" [] OTHER -> c

\* A variant of toLowerCase that leaves the digits as written.
KeepCase(s) == s

ToLowerCase(s) == [i \in 1..Len(s) |-> LowerChar(s[i])]

RECURSIVE TrimLeft(_)
TrimLeft(s) == IF Len(s) > 0 /\ s[1] = " " THEN TrimLeft(Tail(s)) ELSE s

RECURSIVE TrimRight(_)
TrimRight(s) ==
    IF Len(s) > 0 /\ s[Len(s)] = " " THEN TrimRight(SubSeq(s, 1, Len(s) - 1)) ELSE s

\* s.trim()
Trim(s) == TrimRight(TrimLeft(s))

\* s.match(/^0x?([0-9a-fA-F]{40})$/): the captured group, or <<>> for no match
HexMatch(s) ==
    LET n == Len(s)
        allHex(from) == \A i \in from..n : s[i] \in HexDigits
    IN  IF n = HashHexLen + 2 /\ s[1] = "0" /\ s[2] = "x" /\ allHex(3)
            THEN SubSeq(s, 3, n)
        ELSE IF n = HashHexLen + 1 /\ s[1] = "0" /\ allHex(2)
            THEN SubSeq(s, 2, n)
        ELSE <<>>

\* Sample strings.  WalletHash / WalletAddress are the P2PKH wallet of the
\* deployment example, ContractAddress its P2SH32 contract address.
WalletHash == <<"C","C","8","1","d","5","0","a","a","7","f","7","3","5","1","8","9","f","b","8","9","7","8","e","3","f","1","f","7","c","e","b","9","d","4","1","d","2","a","3">>
WalletBody == <<"q","r","x","g","r","4","g","2","5","l","m","n","2","x","y","l","h","z","t","c","u","0","c","l","0","n","4","e","6","s","w","j","5","v","5","s","f","5","g","9","s","7">>
ContractBody == <<"p","v","d","d","k","q","f","l","k","s","0","7","0","c","h","j","l","g","l","l","r","3","x","2","r","s","r","6","w","5","h","z","k","k","u","p","y","w","q","8","0","e","2","x","l","p","u","v","g","m","g","5","s","e","d","y","a","2","d","w","8">>
ChipnetPrefix == <<"b","c","h","t","e","s","t",":">>
WalletAddress == ChipnetPrefix \o WalletBody
ContractAddress == ChipnetPrefix \o ContractBody
\* stands for a P2PKH address whose payload is 32 bytes long
WideAddress == ChipnetPrefix \o <<"q", "3", "2">>

\* decodeCashAddress of @bitauth/libauth, on the sample strings: a decoded
\* address (its type and its payload as hexadecimal digits), or the
\* library's error string for anything it cannot decode.
DecodeCashAddress(s) ==
    IF s = WalletAddress
        THEN [type |-> "p2pkh", payload |-> ToLowerCase(WalletHash)]
    ELSE IF s = ContractAddress
        THEN [type |-> "p2sh", payload |-> ToLowerCase(WalletHash) \o ToLowerCase(WalletHash)]
    ELSE IF s = WideAddress
        THEN [type |-> "p2pkh", payload |-> ToLowerCase(WalletHash) \o ToLowerCase(WalletHash)]
    ELSE [error |-> <<"CashAddress decoding error">>]

\* normalizeRecipientHash(value): [hex |-> h], [error |-> e], or [none |-> TRUE]
\* for { hex: undefined }.  value is a string, or Undefined.
Undefined == <<"undefined">>

NormalizeRecipientHash(value) ==
    IF value = Undefined \/ value = <<>> THEN [none |-> TRUE]
    ELSE LET trimmed == Trim(value) IN
    IF Len(trimmed) = 0 THEN [none |-> TRUE]
    ELSE IF HexMatch(trimmed) # <<>> THEN [hex |-> ToLowerCase(HexMatch(trimmed))]
    ELSE LET candidate == IF \E i \in 1..Len(trimmed) : trimmed[i] = ":"
                          THEN trimmed ELSE ChipnetPrefix \o trimmed
             decoded == DecodeCashAddress(candidate)
         IN  IF Has(decoded, "error")
                 THEN [error |-> Str(<<"Invalid CashAddress: ">> \o decoded.error)]
             ELSE IF decoded.type # "p2pkh"
                 THEN [error |-> Str(<<"Recipient CashAddress must be a P2PKH address">>)]
             ELSE IF Len(decoded.payload) # HashHexLen
                 THEN [error |-> Str(<<"Recipient hash must be 20 bytes (hash160) for P2PKH outputs">>)]
             ELSE [hex |-> decoded.payload]

(***************************************************************************)
(* Template library (templates.ts).  A TemplateResult is a record          *)
(* [code, constructorArgs] with an error field only when an error is set.  *)
(***************************************************************************)
TR(code, args) == [code |-> code, constructorArgs |-> args]

\* Array.from({ length: n }, (_, i) => `${pre}${name}${i}`).join(', ') as tokens
RECURSIVE NumberedList(_, _, _, _)
NumberedList(pre, name, i, n) ==
    IF i >= n THEN <<>>
    ELSE pre \o <<name \o ToString(i)>>
         \o (IF i + 1 < n THEN <<", ">> ELSE <<>>)
         \o NumberedList(pre, name, i + 1, n)

triggerTemplate(type, params) ==
    CASE type = "BCH_RECEIVED" ->
           LET minAmount == Get(params, "minAmount", 10000) IN
           TR(<< <<I8, "// TRIGGER: BCH received">>,
                 <<I8, "require(tx.inputs[0].value >= ", ToString(minAmount), ");">> >>,
              <<>>)
      [] type = "TOKEN_RECEIVED" ->
           LET categoryHex == Get(params, "categoryHex", "") IN
           IF categoryHex # ""
           THEN TR(<< <<I8, "// TRIGGER: Token received">>,
                      <<I8, "require(tx.inputs[0].tokenCategory == ", "0x", categoryHex, ");">> >>,
                   <<>>)
           ELSE TR(<< <<I8, "// TRIGGER: Token received">>,
                      <<I8, "require(tx.inputs[0].tokenCategory == ", "tokenCategory", ");">> >>,
                   << [name |-> "tokenCategory", type |-> "bytes"] >>)
      [] type = "TIME_PASSED" ->
           LET value == Get(params, "days", 30)
               unit == Get(params, "timeUnit", "DAYS")
               unitLabel == IF unit = "MINUTES" THEN "minutes"
                            ELSE IF unit = "HOURS" THEN "hours" ELSE "days"
               multiplier == IF unit = "MINUTES" THEN 60
                             ELSE IF unit = "HOURS" THEN 3600 ELSE 86400
               timeOffsetSeconds == value * multiplier
           IN  TR(<< <<I8, "// TRIGGER: Time passed (", ToString(value), " ", unitLabel, ")">>,
                     <<I8, "require(tx.time >= ", "unlockTime", ");">> >>,
                  << [name |-> "unlockTime", type |-> "int",
                      timeOffsetSeconds |-> timeOffsetSeconds] >>)
      [] type = "MULTISIG_SIGNED" ->
           LET required == Get(params, "required", 2)
               total == Get(params, "total", 3)
               pubkeyArgs == [i \in 1..total |->
                                [name |-> "pk" \o ToString(i - 1), type |-> "pubkey"]]
           IN  TR(<< <<I8, "// TRIGGER: Multisig (", ToString(required), " of ",
                         ToString(total), ")">>,
                     <<I8, "require(checkMultiSig([">> \o NumberedList(<<>>, "s", 0, required)
                         \o <<"], [">> \o NumberedList(<<>>, "pk", 0, total) \o <<"]));">> >>,
                  pubkeyArgs)
      [] type = "PRICE_ABOVE" ->
           LET threshold == Get(params, "usdThreshold", 500) IN
           TR(<< <<I8, "// TRIGGER: Price above threshold (requires oracle)">>,
                 <<I8, "// Note: Oracle integration required for production">>,
                 <<I8, "require(", "oraclePrice", " >= ", ToString(threshold), ");">> >>,
              << [name |-> "oraclePrice", type |-> "int"] >>)
      [] type = "HASH_LOCK" ->
           LET expectedHash == Get(params, "expectedHash", "") IN
           IF expectedHash # ""
           THEN TR(<< <<I8, "// TRIGGER: Hash lock - caller must reveal secret preimage">>,
                      <<I8, "// preimage is passed as a function argument (see function signature)">>,
                      <<I8, "require(hash256(", "preimage", ") == ", "0x", expectedHash, ");">> >>,
                   <<>>)
           ELSE TR(<< <<I8, "// TRIGGER: Hash lock - caller must reveal secret preimage">>,
                      <<I8, "// preimage is passed as a function argument (see function signature)">>,
                      <<I8, "require(hash256(", "preimage", ") == ", "expectedHash", ");">> >>,
                   << [name |-> "expectedHash", type |-> "bytes"] >>)
      [] OTHER -> TR(EmptyText, <<>>)

\* A variant of logicTemplate in which the value blocks emit nothing.
logicTemplateSilentValues(type, params) ==
    CASE type = "CHECK_ADDRESS" ->
           TR(<< <<I8, "// LOGIC: Check signature matches address">>,
                 <<I8, "require(hash160(", "pk", ") == ", "recipientHash", ");">>,
                 <<I8, "require(checkSig(", "s", ", ", "pk", "));">> >>,
              <<>>)
      [] OTHER -> TR(EmptyText, <<>>)

logicTemplate(type, params) ==
    CASE type = "IF_ELSE" -> TR(EmptyText, <<>>)
      [] type = "AND" -> TR(<< <<I8, "// LOGIC: AND condition">> >>, <<>>)
      [] type = "OR" -> TR(<< <<I8, "// LOGIC: OR condition">> >>, <<>>)
      [] type = "COMPARE_VALUE" ->
           LET operator == Get(params, "operator", ">")
               threshold == Get(params, "threshold", 10000)
           IN  TR(<< <<I8, "// LOGIC: Compare value">>,
                     <<I8, "require(tx.inputs[0].value ", operator, " ",
                         ToString(threshold), ");">> >>,
                  <<>>)
      [] type = "CHECK_ADDRESS" ->
           TR(<< <<I8, "// LOGIC: Check signature matches address">>,
                 <<I8, "require(hash160(", "pk", ") == ", "recipientHash", ");">>,
                 <<I8, "require(checkSig(", "s", ", ", "pk", "));">> >>,
              <<>>)
      [] OTHER -> TR(EmptyText, <<>>)

OutRef(outputIndex) == <<"tx.outputs[", ToString(outputIndex), "]">>

RecipientHashArg == [name |-> "recipientHash", type |-> "bytes20"]
TokenCategoryArg == [name |-> "tokenCategory", type |-> "bytes"]

actionTemplate(type, params, outputIndex) ==
    CASE type = "SEND_BCH" ->
           LET recipientHash == Get(params, "recipientHash", Undefined)
               truthy == recipientHash # Undefined /\ recipientHash # <<>>
               normalized == NormalizeRecipientHash(recipientHash)
           IN  IF truthy /\ Has(normalized, "error")
                   THEN [code |-> EmptyText, constructorArgs |-> <<>>,
                         error |-> normalized.error]
               ELSE IF truthy /\ Has(normalized, "hex")
                   THEN TR(<< <<I8, "// ACTION: Send BCH to recipient">>,
                              <<I8, "require(">> \o OutRef(outputIndex)
                                  \o <<".lockingBytecode == new LockingBytecodeP2PKH(", "0x">>
                                  \o normalized.hex \o <<"));">>,
                              <<I8, "require(">> \o OutRef(outputIndex)
                                  \o <<".value >= tx.inputs[0].value - 1000);">> >>,
                           <<>>)
               ELSE TR(<< <<I8, "// ACTION: Send BCH to recipient">>,
                          <<I8, "require(">> \o OutRef(outputIndex)
                              \o <<".lockingBytecode == new LockingBytecodeP2PKH(",
                                   "recipientHash", "));">>,
                          <<I8, "require(">> \o OutRef(outputIndex)
                              \o <<".value >= tx.inputs[0].value - 1000);">> >>,
                       << RecipientHashArg >>)
      [] type = "SEND_TOKEN" ->
           LET recipientHash == Get(params, "recipientHash", Undefined)
               categoryHex == Get(params, "categoryHex", "")
               truthy == recipientHash # Undefined /\ recipientHash # <<>>
               normalized == NormalizeRecipientHash(recipientHash)
               inlined == truthy /\ Has(normalized, "hex")
               recipientExpr == IF inlined THEN <<"0x">> \o normalized.hex
                                ELSE <<"recipientHash">>
               recipientArgs == IF inlined THEN <<>> ELSE << RecipientHashArg >>
               categoryExpr == IF categoryHex # "" THEN <<"0x", categoryHex>>
                               ELSE <<"tokenCategory">>
               categoryArgs == IF categoryHex # "" THEN <<>> ELSE << TokenCategoryArg >>
           IN  IF truthy /\ Has(normalized, "error")
                   THEN [code |-> EmptyText, constructorArgs |-> <<>>,
                         error |-> normalized.error]
               ELSE TR(<< <<I8, "// ACTION: Send token to recipient">>,
                          <<I8, "require(">> \o OutRef(outputIndex)
                              \o <<".lockingBytecode == new LockingBytecodeP2PKH(">>
                              \o recipientExpr \o <<"));">>,
                          <<I8, "require(">> \o OutRef(outputIndex)
                              \o <<".tokenCategory == ">> \o categoryExpr \o <<";">> >>,
                       recipientArgs \o categoryArgs)
      [] type = "SPLIT_PERCENT" ->
           LET percent == Get(params, "percent", 50)
               remaining == 100 - percent
               firstOutputIndex == outputIndex
               secondOutputIndex == outputIndex + 1
           IN  TR(<< <<I8, "// ACTION: Split ", ToString(percent), "% / ",
                         ToString(remaining), "%">>,
                     <<I8, "int totalValue = tx.inputs[0].value - 1000;">>,
                     <<I8, "int firstOutput = totalValue * ", ToString(percent), " / 100;">>,
                     <<I8, "int secondOutput = totalValue - firstOutput;">>,
                     <<I8, "require(">> \o OutRef(firstOutputIndex)
                         \o <<".value >= firstOutput);">>,
                     <<I8, "require(">> \o OutRef(secondOutputIndex)
                         \o <<".value >= secondOutput);">> >>,
                  <<>>)
      [] type = "TIME_LOCK_OUTPUT" ->
           LET days == Get(params, "days", 30) IN
           TR(<< <<I8, "// ACTION: Time lock output for ", ToString(days), " days">>,
                 <<I8, "// Using sequence number for relative timelock">>,
                 <<I8, "require(">> \o OutRef(outputIndex)
                     \o <<".value >= tx.inputs[0].value - 1000);">> >>,
              <<>>)
      [] type = "SEND_BACK" ->
           TR(<< <<I8, "// ACTION: Send back to contract">>,
                 <<I8, "require(">> \o OutRef(outputIndex)
                     \o <<".lockingBytecode == new LockingBytecodeP2SH32(hash256(this.activeBytecode)));">> >>,
              <<>>)
      [] OTHER -> TR(EmptyText, <<>>)

stateTemplate(type, params) ==
    CASE type = "STORE_IN_NFT" ->
           LET key == Get(params, "key", "data") IN
           TR(<< <<I8, "// STATE: Store in NFT commitment (key: ", key, ")">>,
                 <<I8, "// NFT commitment is preserved in output">>,
                 <<I8, "require(tx.outputs[0].nftCommitment == tx.inputs[0].nftCommitment);">> >>,
              <<>>)
      [] type = "READ_FROM_NFT" ->
           LET key == Get(params, "key", "data") IN
           TR(<< <<I8, "// STATE: Read from NFT commitment (key: ", key, ")">>,
                 <<I8, "bytes storedData = tx.inputs[0].nftCommitment;">> >>,
              <<>>)
      [] type = "INCREMENT_COUNTER" ->
           TR(<< <<I8, "// STATE: Increment counter in NFT">>,
                 <<I8, "bytes oldCommitment = tx.inputs[0].nftCommitment;">>,
                 <<I8, "int counter = int(oldCommitment);">>,
                 <<I8, "int newCounter = counter + 1;">>,
                 <<I8, "require(tx.outputs[0].nftCommitment == bytes8(newCounter));">> >>,
              <<>>)
      [] OTHER -> TR(EmptyText, <<>>)

\* A variant of getBlockTemplate that keeps a trigger's code and forgets its
\* constructor arguments.
getBlockTemplateNoTriggerArgs(type, params, category, outputIndex) ==
    CASE category = "trigger" -> TR(triggerTemplate(type, params).code, <<>>)
      [] category = "logic" -> logicTemplate(type, params)
      [] category = "action" -> actionTemplate(type, params, outputIndex)
      [] category = "state" -> stateTemplate(type, params)
      [] OTHER -> TR(EmptyText, <<>>)

getBlockTemplate(type, params, category, outputIndex) ==
    CASE category = "trigger" -> triggerTemplate(type, params)
      [] category = "logic" -> logicTemplate(type, params)
      [] category = "action" -> actionTemplate(type, params, outputIndex)
      [] category = "state" -> stateTemplate(type, params)
      [] OTHER -> TR(EmptyText, <<>>)

\* A variant of the header's choice in which the single signature is tested
\* before the multi-signature.
getFunctionSignatureSigFirst(hasSig, hasMultisig, sigCount, hasHashLock) ==
    LET preimage == IF hasHashLock THEN <<"bytes ", "preimage", ", ">> ELSE <<>>
    IN  IF hasSig
            THEN <<"function execute(">> \o preimage \o <<"sig ", "s", ", ", "pubkey ", "pk", ")">>
        ELSE IF hasMultisig
            THEN <<"function execute(">> \o preimage
                 \o NumberedList(<<"sig ">>, "s", 0, sigCount) \o <<")">>
        ELSE <<"function execute(">> \o preimage \o <<"pubkey ", "pk", ")">>

\* the unlock function's header, as one line of tokens
getFunctionSignature(hasSig, hasMultisig, sigCount, hasHashLock) ==
    LET preimage == IF hasHashLock THEN <<"bytes ", "preimage", ", ">> ELSE <<>>
    IN  IF hasMultisig
            THEN <<"function execute(">> \o preimage
                 \o NumberedList(<<"sig ">>, "s", 0, sigCount) \o <<")">>
        ELSE IF hasSig
            THEN <<"function execute(">> \o preimage \o <<"sig ", "s", ", ", "pubkey ", "pk", ")">>
        ELSE <<"function execute(">> \o preimage \o <<"pubkey ", "pk", ")">>

(***************************************************************************)
(* The compiler (BlockGraphCompiler.ts).                                   *)
(* A graph is [trigger, nodes, edges]: trigger is the id of graph.trigger  *)
(* (the only field of it the compiler reads) or Null; a node is            *)
(* [id, type, category, params, children]; an edge is [from, to, type].    *)
(***************************************************************************)
Null == "null"

MsgNoTrigger == Str(<<"Contract must have exactly one ", "trigger", " block">>)
MsgTriggerNotFound == Str(<<"Trigger", " block not found in nodes">>)
MsgNoAction == Str(<<"Contract must have at least one ", "action", " block">>)

\* Variants of validateGraph that the validation properties must tell apart
\* from it: one that goes on to the other rules when the root is missing,
\* one that has no action rule.
validateGraphAllRules(g) ==
    (IF g.trigger = Null THEN << MsgNoTrigger >> ELSE <<>>)
    \o (IF g.trigger # Null /\ \E i \in 1..Len(g.nodes) : g.nodes[i].id = g.trigger
        THEN <<>> ELSE << MsgTriggerNotFound >>)
    \o (IF \E i \in 1..Len(g.nodes) : g.nodes[i].category = "action"
        THEN <<>> ELSE << MsgNoAction >>)

validateGraphRootOnly(g) ==
    IF g.trigger = Null THEN << MsgNoTrigger >>
    ELSE IF \E i \in 1..Len(g.nodes) : g.nodes[i].id = g.trigger
         THEN <<>> ELSE << MsgTriggerNotFound >>

\* A variant that stops at the first rule violated.
validateGraphFirstError(g) ==
    IF g.trigger = Null THEN << MsgNoTrigger >>
    ELSE IF ~\E i \in 1..Len(g.nodes) : g.nodes[i].id = g.trigger
         THEN << MsgTriggerNotFound >>
    ELSE IF ~\E i \in 1..Len(g.nodes) : g.nodes[i].category = "action"
         THEN << MsgNoAction >>
    ELSE <<>>

validateGraph(g) ==
    IF g.trigger = Null THEN << MsgNoTrigger >>
    ELSE (IF \E i \in 1..Len(g.nodes) : g.nodes[i].id = g.trigger
          THEN <<>> ELSE << MsgTriggerNotFound >>)
         \o (IF \E i \in 1..Len(g.nodes) : g.nodes[i].category = "action"
             THEN <<>> ELSE << MsgNoAction >>)

\* nodeMap.has(id) / nodeMap.get(id) for the Map built by set() over nodes in order
MapHas(nodes, id) == \E i \in 1..Len(nodes) : nodes[i].id = id

MapGet(nodes, id) ==
    nodes[CHOOSE i \in 1..Len(nodes) :
            /\ nodes[i].id = id
            /\ \A j \in (i + 1)..Len(nodes) : nodes[j].id # id]

\* visit(nodeId) of sortNodes; st = [visited, sorted]
RECURSIVE visit(_, _, _)
RECURSIVE visitChildren(_, _, _, _)

\* A variant of the loop over node.children that takes the children from the
\* last to the first.
RECURSIVE visitChildrenLastFirst(_, _, _, _)
visitChildrenLastFirst(nodes, children, i, st) ==
    IF i > Len(children) THEN st
    ELSE visitChildrenLastFirst(nodes, children, i + 1,
                                visit(nodes, children[Len(children) + 1 - i], st))

visit(nodes, nodeId, st) ==
    IF nodeId \in st.visited THEN st
    ELSE LET st1 == [st EXCEPT !.visited = @ \cup {nodeId}] IN
         IF ~MapHas(nodes, nodeId) THEN st1
         ELSE LET node == MapGet(nodes, nodeId) IN
              visitChildren(nodes, node.children, 1,
                            [st1 EXCEPT !.sorted = Append(@, node)])

visitChildren(nodes, children, i, st) ==
    IF i > Len(children) THEN st
    ELSE visitChildren(nodes, children, i + 1, visit(nodes, children[i], st))

\* A variant of sortNodes in the usual shape of a topological sort: after the
\* root, every node not yet visited is visited too.
RECURSIVE VisitAll(_, _, _)
VisitAll(nodes, i, st) ==
    IF i > Len(nodes) THEN st
    ELSE VisitAll(nodes, i + 1, visit(nodes, nodes[i].id, st))

sortNodesVisitingAll(g) ==
    IF g.trigger = Null THEN <<>>
    ELSE VisitAll(g.nodes, 1,
                  visit(g.nodes, g.trigger, [visited |-> {}, sorted |-> <<>>])).sorted

sortNodes(g) ==
    IF g.trigger = Null THEN <<>>
    ELSE visit(g.nodes, g.trigger, [visited |-> {}, sorted |-> <<>>]).sorted

\* argsMap.has(name) / the insertion-ordered values of argsMap
HasArg(args, name) == \E i \in 1..Len(args) : args[i].name = name

\* A variant of the argument map's update without the has() test: a later
\* request of a name overwrites the entry (Map.set keeps its position).
RECURSIVE AddArgsLastWins(_, _, _)
AddArgsLastWins(args, new, i) ==
    IF i > Len(new) THEN args
    ELSE AddArgsLastWins(IF HasArg(args, new[i].name)
                         THEN [k \in 1..Len(args) |->
                                 IF args[k].name = new[i].name THEN new[i] ELSE args[k]]
                         ELSE Append(args, new[i]),
                         new, i + 1)

RECURSIVE AddArgs(_, _, _)
AddArgs(args, new, i) ==
    IF i > Len(new) THEN args
    ELSE AddArgs(IF HasArg(args, new[i].name) THEN args ELSE Append(args, new[i]),
                 new, i + 1)

\* collectConstructorArgs: [args |-> list], or [threw |-> message] for a TemplateError
RECURSIVE CollectFrom(_, _, _)
CollectFrom(nodes, i, args) ==
    IF i > Len(nodes) THEN [args |-> args]
    ELSE LET template == getBlockTemplate(nodes[i].type, nodes[i].params,
                                          nodes[i].category, 0)
         IN  IF Has(template, "error") THEN [threw |-> template.error]
             ELSE CollectFrom(nodes, i + 1, AddArgs(args, template.constructorArgs, 1))

\* A variant of generateConstructorArgs' input order: the values of the
\* argument map read newest first.
collectConstructorArgsNewestFirst(nodes) ==
    LET got == CollectFrom(nodes, 1, <<>>) IN
    IF Has(got, "threw") THEN got
    ELSE [args |-> [i \in 1..Len(got.args) |-> got.args[Len(got.args) + 1 - i]]]

\* A variant of the collection loop in which a later node's error replaces
\* an earlier one: the error of the last failing node is thrown.
RECURSIVE LastError(_, _, _)
LastError(nodes, i, found) ==
    IF i > Len(nodes) THEN found
    ELSE LET template == getBlockTemplate(nodes[i].type, nodes[i].params,
                                          nodes[i].category, 0)
         IN  LastError(nodes, i + 1,
                       IF Has(template, "error") THEN [threw |-> template.error] ELSE found)

collectConstructorArgsLastError(nodes) == LastError(nodes, 1, CollectFrom(nodes, 1, <<>>))

collectConstructorArgs(nodes) == CollectFrom(nodes, 1, <<>>)

RECURSIVE NeedsFrom(_, _, _)
NeedsFrom(nodes, i, acc) ==
    IF i > Len(nodes) THEN acc
    ELSE LET node == nodes[i]
             a1 == IF node.type = "CHECK_ADDRESS" THEN [acc EXCEPT !.hasSig = TRUE] ELSE acc
             a2 == IF node.type = "HASH_LOCK" THEN [a1 EXCEPT !.hasHashLock = TRUE] ELSE a1
             a3 == IF node.type = "MULTISIG_SIGNED"
                   THEN [a2 EXCEPT !.hasMultisig = TRUE,
                                   !.sigCount = Get(node.params, "required", 2)]
                   ELSE a2
             a4 == IF node.category = "action" THEN [a3 EXCEPT !.hasSig = TRUE] ELSE a3
         IN  NeedsFrom(nodes, i + 1, a4)

\* A variant of needsSignature that keeps the default signature count.
needsSignatureTwoSigs(nodes) ==
    [NeedsFrom(nodes, 1, [hasSig |-> FALSE, hasMultisig |-> FALSE,
                          sigCount |-> 2, hasHashLock |-> FALSE])
        EXCEPT !.sigCount = 2]

needsSignature(nodes) ==
    NeedsFrom(nodes, 1, [hasSig |-> FALSE, hasMultisig |-> FALSE,
                         sigCount |-> 2, hasHashLock |-> FALSE])

\* generateConstructorArgs: '' for no argument, else one line per argument
generateConstructorArgs(args) ==
    IF Len(args) = 0 THEN EmptyText
    ELSE Join([i \in 1..Len(args) |-> Str(<<I4, args[i].type, " ", args[i].name>>)],
              << <<",">>, <<>> >>)

\* edges.find((e) => e.from === from && e.type === type): found?, and its target
HasEdge(edges, from, type) ==
    \E i \in 1..Len(edges) : edges[i].from = from /\ edges[i].type = type

EdgeTo(edges, from, type) ==
    edges[CHOOSE i \in 1..Len(edges) :
            /\ edges[i].from = from /\ edges[i].type = type
            /\ \A j \in 1..(i - 1) : ~(edges[j].from = from /\ edges[j].type = type)].to

\* an absent id (undefined): node.children[0] of a childless node, nextEdge?.to
NoId == ""

\* A variant of collectBranchIds that does not follow the continuation of a
\* conditional met inside an arm.
RECURSIVE collectBranchIdsArmsOnly(_, _, _, _)
collectBranchIdsArmsOnly(startId, nodes, edges, collected) ==
    IF startId \in collected THEN collected
    ELSE IF ~MapHas(nodes, startId) THEN collected
    ELSE LET node == MapGet(nodes, startId)
             c0 == collected \cup {startId}
         IN  IF node.type = "IF_ELSE"
             THEN LET c1 == IF HasEdge(edges, node.id, "condition_true")
                            THEN collectBranchIdsArmsOnly(
                                     EdgeTo(edges, node.id, "condition_true"), nodes, edges, c0)
                            ELSE c0
                  IN  IF HasEdge(edges, node.id, "condition_false")
                      THEN collectBranchIdsArmsOnly(
                               EdgeTo(edges, node.id, "condition_false"), nodes, edges, c1)
                      ELSE c1
             ELSE IF Len(node.children) > 0
                  THEN collectBranchIdsArmsOnly(node.children[1], nodes, edges, c0)
                  ELSE c0

RECURSIVE collectBranchIds(_, _, _, _)
collectBranchIds(startId, nodes, edges, collected) ==
    IF startId \in collected THEN collected
    ELSE IF ~MapHas(nodes, startId) THEN collected
    ELSE LET node == MapGet(nodes, startId)
             c0 == collected \cup {startId}
         IN  IF node.type = "IF_ELSE"
             THEN LET c1 == IF HasEdge(edges, node.id, "condition_true")
                            THEN collectBranchIds(EdgeTo(edges, node.id, "condition_true"),
                                                  nodes, edges, c0)
                            ELSE c0
                      c2 == IF HasEdge(edges, node.id, "condition_false")
                            THEN collectBranchIds(EdgeTo(edges, node.id, "condition_false"),
                                                  nodes, edges, c1)
                            ELSE c1
                  IN  IF HasEdge(edges, node.id, "next")
                      THEN collectBranchIds(EdgeTo(edges, node.id, "next"), nodes, edges, c2)
                      ELSE c2
             ELSE IF Len(node.children) > 0
                  THEN collectBranchIds(node.children[1], nodes, edges, c0)
                  ELSE c0

\* What a code generator does: it returns a string, throws a TemplateError,
\* or never returns.  generateBranchCode keeps no visited set, so when its
\* walk comes back to a node it is still working on (a node on the chain it
\* is following, or a conditional whose arm it is inside) it repeats the
\* same steps for ever: the loop or the recursion has no end (an unbounded
\* array or a RangeError, neither of them a TemplateError).
Returned(text) == [kind |-> "ok", text |-> text]
Threw(message) == [kind |-> "threw", message |-> message]
NoReturn == [kind |-> "diverges"]

BlankLine == << <<>>, <<>>, <<>> >>

\* A variant of the counter's update without the exception for the split:
\* every action claims a slot.
NextOutputIndexEveryAction(node, outputIndex) ==
    IF node.category = "action" THEN outputIndex + 1 ELSE outputIndex

\* if (node.type !== 'SPLIT_PERCENT' && isAction) outputIndex += 1, in both loops
NextOutputIndex(node, outputIndex) ==
    IF node.type # "SPLIT_PERCENT" /\ node.category = "action"
    THEN outputIndex + 1 ELSE outputIndex

\* the while loop of generateBranchCode from currentId, with the lines pushed
\* so far; active is the set of nodes the walk is still working on
RECURSIVE BranchLoop(_, _, _, _, _, _)
BranchLoop(currentId, nodes, edges, outputIndex, lines, active) ==
    IF currentId = NoId \/ ~MapHas(nodes, currentId) THEN Returned(Join(lines, BlankLine))
    ELSE IF currentId \in active THEN NoReturn
    ELSE LET node == MapGet(nodes, currentId)
             isAction == node.category = "action"
             inside == active \cup {currentId}
         IN
         IF node.type = "IF_ELSE"
         THEN LET condExpr == Get(node.params, "conditionExpr", "true")
                  hasThen == HasEdge(edges, node.id, "condition_true")
                  hasElse == HasEdge(edges, node.id, "condition_false")
                  thenR == IF hasThen
                           THEN BranchLoop(EdgeTo(edges, node.id, "condition_true"),
                                           nodes, edges, outputIndex, <<>>, inside)
                           ELSE Returned(EmptyText)
                  elseR == IF hasElse
                           THEN BranchLoop(EdgeTo(edges, node.id, "condition_false"),
                                           nodes, edges, outputIndex, <<>>, inside)
                           ELSE Returned(EmptyText)
                  code0 == << <<I12, "if (", condExpr, ") {">>, <<>> >>
                  code1 == IF hasThen THEN Cat(code0, Cat(IndentAll(thenR.text), NL))
                           ELSE code0
                  code2 == Cat(code1, << <<I12, "} else {">>, <<>> >>)
                  code3 == IF hasElse THEN Cat(code2, Cat(IndentAll(elseR.text), NL))
                           ELSE code2
                  code == Cat(code3, Str(<<I12, "}">>))
                  nextId == IF HasEdge(edges, node.id, "next")
                            THEN EdgeTo(edges, node.id, "next") ELSE NoId
              IN  IF thenR.kind # "ok" THEN thenR
                  ELSE IF elseR.kind # "ok" THEN elseR
                  ELSE BranchLoop(nextId, nodes, edges, outputIndex,
                                  Append(lines, code), inside)
         ELSE LET template == getBlockTemplate(node.type, node.params, node.category,
                                               IF isAction THEN outputIndex ELSE 0)
                  lines1 == IF template.code # EmptyText
                            THEN Append(lines, Reindent(template.code)) ELSE lines
                  index1 == NextOutputIndex(node, outputIndex)
                  nextId == IF Len(node.children) > 0 THEN node.children[1] ELSE NoId
              IN  IF Has(template, "error") THEN Threw(template.error)
                  ELSE BranchLoop(nextId, nodes, edges, index1, lines1, inside)

\* A variant of generateBranchCode that numbers the slots of every arm from 0.
generateBranchCodeFromZero(startId, nodes, edges, startOutputIndex) ==
    BranchLoop(startId, nodes, edges, 0, <<>>, {})

generateBranchCode(startId, nodes, edges, startOutputIndex) ==
    BranchLoop(startId, nodes, edges, startOutputIndex, <<>>, {})

\* the first loop of generateFunctionBody: the ids owned by some conditional's arm
RECURSIVE BranchIdsFrom(_, _, _, _)
BranchIdsFrom(nodes, edges, i, collected) ==
    IF i > Len(nodes) THEN collected
    ELSE LET node == nodes[i] IN
         IF node.type = "IF_ELSE"
         THEN LET c1 == IF HasEdge(edges, node.id, "condition_true")
                        THEN collectBranchIds(EdgeTo(edges, node.id, "condition_true"),
                                              nodes, edges, collected)
                        ELSE collected
                  c2 == IF HasEdge(edges, node.id, "condition_false")
                        THEN collectBranchIds(EdgeTo(edges, node.id, "condition_false"),
                                              nodes, edges, c1)
                        ELSE c1
              IN  BranchIdsFrom(nodes, edges, i + 1, c2)
         ELSE BranchIdsFrom(nodes, edges, i + 1, collected)

branchNodeIds(nodes, edges) == BranchIdsFrom(nodes, edges, 1, {})

\* the conditional's wrapper as generateFunctionBody builds it
IfElseCode(node, edges, thenR, elseR) ==
    LET condExpr == Get(node.params, "conditionExpr", "true")
        code0 == << <<I8, "// LOGIC: Conditional branch">>,
                    <<I8, "if (", condExpr, ") {">>, <<>> >>
        code1 == IF HasEdge(edges, node.id, "condition_true")
                 THEN Cat(code0, Cat(thenR.text, NL))
                 ELSE Cat(code0, << <<I12, "// empty branch">>, <<>> >>)
        code2 == Cat(code1, << <<I8, "} else {">>, <<>> >>)
        code3 == IF HasEdge(edges, node.id, "condition_false")
                 THEN Cat(code2, Cat(elseR.text, NL))
                 ELSE Cat(code2, << <<I12, "// empty branch">>, <<>> >>)
    IN  Cat(code3, Str(<<I8, "}">>))

\* the main loop of generateFunctionBody from position i
RECURSIVE BodyLoop(_, _, _, _, _, _)
BodyLoop(nodes, edges, skip, i, outputIndex, codeLines) ==
    IF i > Len(nodes) THEN Returned(Join(codeLines, BlankLine))
    ELSE LET node == nodes[i]
             isAction == node.category = "action"
             index1 == NextOutputIndex(node, outputIndex)
         IN
         IF node.id \in skip THEN BodyLoop(nodes, edges, skip, i + 1, outputIndex, codeLines)
         ELSE IF node.type = "IF_ELSE"
         THEN LET thenR == IF HasEdge(edges, node.id, "condition_true")
                           THEN generateBranchCode(EdgeTo(edges, node.id, "condition_true"),
                                                   nodes, edges, outputIndex)
                           ELSE Returned(EmptyText)
                  elseR == IF HasEdge(edges, node.id, "condition_false")
                           THEN generateBranchCode(EdgeTo(edges, node.id, "condition_false"),
                                                   nodes, edges, outputIndex)
                           ELSE Returned(EmptyText)
              IN  IF thenR.kind # "ok" THEN thenR
                  ELSE IF elseR.kind # "ok" THEN elseR
                  ELSE BodyLoop(nodes, edges, skip, i + 1, index1,
                                Append(codeLines,
                                       IfElseCode(node, edges, thenR, elseR)))
         ELSE LET template == getBlockTemplate(node.type, node.params, node.category,
                                               IF isAction THEN outputIndex ELSE 0)
              IN  IF Has(template, "error") THEN Threw(template.error)
                  ELSE BodyLoop(nodes, edges, skip, i + 1, index1,
                                IF template.code # EmptyText
                                THEN Append(codeLines, template.code) ELSE codeLines)

\* A variant of generateFunctionBody whose counter starts at 1.
generateFunctionBodyFromOne(nodes, edges) ==
    BodyLoop(nodes, edges, branchNodeIds(nodes, edges), 1, 1, <<>>)

generateFunctionBody(nodes, edges) ==
    BodyLoop(nodes, edges, branchNodeIds(nodes, edges), 1, 0, <<>>)

\* a + b + c + ...
RECURSIVE CatAll(_)
CatAll(list) == IF Len(list) = 0 THEN EmptyText ELSE Cat(Head(list), CatAll(Tail(list)))

SigCheck == << <<I8, "// Verify signature">>,
               <<I8, "require(checkSig(", "s", ", ", "pk", "));">>, <<>>, <<>> >>

\* A variant of the error result that keeps a source text beside the error.
ErrorResultKeepingSource(message) ==
    [source |-> Str(<<"// ">>), constructorArgs |-> <<>>, error |-> message]

ErrorResult(message) == [source |-> EmptyText, constructorArgs |-> <<>>, error |-> message]

\* compile never returned a CompileResult (it threw something else than a
\* TemplateError, or did not come back)
NoResult == [thrown |-> TRUE]

\* const constructorSection = constructorArgsStr ? `(\n${constructorArgsStr}\n)` : '()'
ConstructorSection(constructorArgsStr) ==
    IF constructorArgsStr # EmptyText
    THEN CatAll(<< << <<"(">>, <<>> >>, constructorArgsStr, << <<>>, <<")">> >> >>)
    ELSE Str(<<"()">>)

\* the source template literal
SourceText(constructorSection, functionSig, sigCheck, functionBody) ==
    CatAll(<< << <<"pragma cashscript ^0.10.0;">>, <<>>,
                 <<"contract ", "GeneratedContract">> >>,
              constructorSection,
              << <<" {">>, <<I4>> >>,
              Str(functionSig),
              << <<" {">>, <<>> >>,
              sigCheck,
              functionBody,
              << <<>>, <<I4, "}">>, <<"}">>, <<>> >> >>)

\* the result of compile from what its passes gave: collected is the outcome
\* of collectConstructorArgs, need of needsSignature, functionBody of
\* generateFunctionBody (a TemplateError of the first one is thrown first)
Assemble(collected, need, functionBody) ==
    IF Has(collected, "threw") THEN ErrorResult(collected.threw)
    ELSE IF functionBody.kind = "threw" THEN ErrorResult(functionBody.message)
    ELSE IF functionBody.kind = "diverges" THEN NoResult
    ELSE [source |->
             SourceText(ConstructorSection(generateConstructorArgs(collected.args)),
                        getFunctionSignature(need.hasSig, need.hasMultisig,
                                             need.sigCount, need.hasHashLock),
                        IF need.hasSig /\ ~need.hasMultisig THEN SigCheck ELSE EmptyText,
                        functionBody.text),
          constructorArgs |-> collected.args]

CompilePasses(sortedNodes, edges) ==
    Assemble(collectConstructorArgs(sortedNodes), needsSignature(sortedNodes),
             generateFunctionBody(sortedNodes, edges))

\* compile after validation passed: sort, collect, assemble, and the catch
CompileSteps(g) == CompilePasses(sortNodes(g), g.edges)

compile(g) ==
    LET validationErrors == validateGraph(g) IN
    IF Len(validationErrors) > 0
    THEN ErrorResult(Join(validationErrors, Str(<<"; ">>)))
    ELSE CompileSteps(g)

(***************************************************************************)
(* Input graphs.  parseWorkspace (the parser) turns a workspace of block   *)
(* stacks into a graph; a block is [type, params] and, for a conditional,  *)
(* its THEN and ELSE stacks and the blocks plugged into its CONDITION.     *)
(***************************************************************************)
TRIGGER_TYPES == {"BCH_RECEIVED", "TOKEN_RECEIVED", "TIME_PASSED", "MULTISIG_SIGNED",
                  "PRICE_ABOVE", "HASH_LOCK"}
LOGIC_TYPES == {"IF_ELSE", "AND", "OR", "COMPARE_VALUE", "CHECK_ADDRESS"}
ACTION_TYPES == {"SEND_BCH", "SEND_TOKEN", "SPLIT_PERCENT", "TIME_LOCK_OUTPUT", "SEND_BACK"}
STATE_TYPES == {"STORE_IN_NFT", "READ_FROM_NFT", "INCREMENT_COUNTER"}

getBlockCategory(type) ==
    IF type \in TRIGGER_TYPES THEN "trigger"
    ELSE IF type \in LOGIC_TYPES THEN "logic"
    ELSE IF type \in ACTION_TYPES THEN "action"
    ELSE IF type \in STATE_TYPES THEN "state"
    ELSE Null

Block(type, params) == [type |-> type, params |-> params, then |-> <<>>, else |-> <<>>]

IfBlock(params, then, else) ==
    [type |-> "IF_ELSE", params |-> params, then |-> then, else |-> else]

\* blockToNode and buildEdges over one stack of blocks; the j-th block of a
\* stack named prefix has id prefix + j, its THEN stack is named id + "t",
\* its ELSE stack id + "e"
RECURSIVE StackNodes(_, _, _)
StackNodes(stack, prefix, j) ==
    IF j > Len(stack) THEN <<>>
    ELSE LET b == stack[j]
             id == prefix \o ToString(j)
             next == IF j < Len(stack) THEN <<prefix \o ToString(j + 1)>> ELSE <<>>
             then == IF Len(b.then) > 0 THEN <<id \o "t1">> ELSE <<>>
             else == IF Len(b.else) > 0 THEN <<id \o "e1">> ELSE <<>>
         IN  << [id |-> id, type |-> b.type, category |-> getBlockCategory(b.type),
                 params |-> b.params, children |-> next \o then \o else] >>
             \o StackNodes(b.then, id \o "t", 1)
             \o StackNodes(b.else, id \o "e", 1)
             \o StackNodes(stack, prefix, j + 1)

RECURSIVE StackEdges(_, _, _)
StackEdges(stack, prefix, j) ==
    IF j > Len(stack) THEN <<>>
    ELSE LET b == stack[j]
             id == prefix \o ToString(j)
             next == IF j < Len(stack)
                     THEN << [from |-> id, to |-> prefix \o ToString(j + 1), type |-> "next"] >>
                     ELSE <<>>
             then == IF Len(b.then) > 0
                     THEN << [from |-> id, to |-> id \o "t1", type |-> "condition_true"] >>
                     ELSE <<>>
             else == IF Len(b.else) > 0
                     THEN << [from |-> id, to |-> id \o "e1", type |-> "condition_false"] >>
                     ELSE <<>>
         IN  next \o then \o else
             \o StackEdges(b.then, id \o "t", 1)
             \o StackEdges(b.else, id \o "e", 1)
             \o StackEdges(stack, prefix, j + 1)

\* parseWorkspace of a workspace holding the stack main and the stack
\* floating (blocks lying loose on the canvas, or plugged into a CONDITION
\* socket: nodes of the graph that no child list names)
parseWorkspace(main, floating) ==
    LET mainNodes == StackNodes(main, "b", 1)
        floatNodes == StackNodes(floating, "f", 1)
        \* the last parentless block of category trigger
        trigger == IF Len(floating) > 0 /\ floatNodes[1].category = "trigger"
                       THEN floatNodes[1].id
                   ELSE IF Len(main) > 0 /\ mainNodes[1].category = "trigger"
                       THEN mainNodes[1].id
                   ELSE Null
    IN  [trigger |-> trigger, nodes |-> mainNodes \o floatNodes,
         edges |-> StackEdges(main, "b", 1) \o StackEdges(floating, "f", 1)]

\* Blocks as the editor's fields fill them (a field left empty is ""), or as
\* a hand-written graph gives them (a parameter may be absent)
NoParams == << >>

HexHash == <<"0", "x">> \o WalletHash
ShortHex == <<"0", "x">> \o SubSeq(WalletHash, 1, HashHexLen - 1)
BadAddress == <<"n", "o", "t", "a", "n", "a", "d", "d", "r", "e", "s", "s">>

\* recipients the normalisation turns into a hash, rejects, or treats as unset
HashRecipients == {HexHash, <<" ">> \o HexHash \o <<" ">>, <<"0">> \o WalletHash,
                   WalletAddress, WalletBody}
BadRecipients == {BadAddress, WalletHash, ShortHex, ContractAddress, WideAddress}
UnsetRecipients == {<<>>, <<" ", " ">>}
Recipients == HashRecipients \cup BadRecipients \cup UnsetRecipients

CategoryId == "ab12"
HashImage == "cd34"
CondExpr == "tx.inputs[0].value > 50000"
InnerCondExpr == "(tx.inputs[0].value > 50000 && tx.inputs[0].value < 200000)"

BchReceived(n) == Block("BCH_RECEIVED", [minAmount |-> n])
TokenReceived(c) == Block("TOKEN_RECEIVED", [categoryHex |-> c])
TimePassed(d) == Block("TIME_PASSED", [days |-> d])
TimePassedIn(d, unit) == Block("TIME_PASSED", [days |-> d, timeUnit |-> unit])
MultisigSigned(r, n) == Block("MULTISIG_SIGNED", [required |-> r, total |-> n])
PriceAbove(n) == Block("PRICE_ABOVE", [usdThreshold |-> n])
HashLock(h) == Block("HASH_LOCK", [expectedHash |-> h])
CompareValue(op, n) == Block("COMPARE_VALUE", [operator |-> op, threshold |-> n])
CheckAddress == Block("CHECK_ADDRESS", NoParams)
SendBch(recipient) == Block("SEND_BCH", [recipientHash |-> recipient])
SendToken(recipient, c) == Block("SEND_TOKEN", [recipientHash |-> recipient, categoryHex |-> c])
SplitPercent(n) == Block("SPLIT_PERCENT", [percent |-> n])
TimeLockOutput(d) == Block("TIME_LOCK_OUTPUT", [days |-> d])
SendBack == Block("SEND_BACK", NoParams)
StoreInNft == Block("STORE_IN_NFT", [key |-> "data"])
IfElse(then, else) == IfBlock([conditionExpr |-> CondExpr], then, else)
InnerIfElse(then, else) == IfBlock([conditionExpr |-> InnerCondExpr], then, else)

\* bounds of the enumeration
MaxChain == 3
MaxArm == 3
MaxDays == 2
MaxKeys == 3

TimeUnits == {"MINUTES", "HOURS", "DAYS"}

AllTriggers ==
    {BchReceived(1000), TokenReceived(CategoryId), TokenReceived(""), PriceAbove(500),
     HashLock(HashImage), HashLock("")}
    \cup {TimePassed(d) : d \in 0..MaxDays}
    \cup {TimePassedIn(d, u) : d \in 1..MaxDays, u \in TimeUnits}
    \cup {MultisigSigned(r, n) : r \in 1..MaxKeys, n \in 1..MaxKeys}
    \cup {Block(t, NoParams) : t \in TRIGGER_TYPES}

AllActions ==
    {SendBch(r) : r \in Recipients}
    \cup {SendToken(r, c) : r \in {<<>>, HexHash, BadAddress}, c \in {"", CategoryId}}
    \cup {SplitPercent(30), TimeLockOutput(7), SendBack}
    \cup {Block(t, NoParams) : t \in ACTION_TYPES}

AllPlain ==
    AllActions
    \cup {Block("AND", NoParams), Block("OR", NoParams), CompareValue(">=", 600),
          Block("COMPARE_VALUE", NoParams), CheckAddress, StoreInNft,
          Block("READ_FROM_NFT", NoParams), Block("INCREMENT_COUNTER", NoParams)}

RECURSIVE SeqsUpTo(_, _)
SeqsUpTo(S, n) ==
    IF n = 0 THEN {<<>>}
    ELSE LET shorter == SeqsUpTo(S, n - 1)
         IN  shorter \cup {Append(q, x) : q \in {r \in shorter : Len(r) = n - 1}, x \in S}

\* 1. a trigger and a chain of blocks below it
ChainTriggers == {BchReceived(1000), TimePassed(90), MultisigSigned(2, 3), HashLock(""),
                  TokenReceived("")}
ChainBlocks == {SendBch(<<>>), SendBch(HexHash), SendToken(<<>>, ""),
                SplitPercent(30), SendBack, CheckAddress}

ChainGraphs ==
    {parseWorkspace(<<t>> \o chain, <<>>) :
        t \in ChainTriggers, chain \in SeqsUpTo(ChainBlocks, MaxChain)}

\* 2. every block type and parameter variant: under each trigger, alone or
\*    followed by an action; a second trigger block in the chain; and
\*    workspaces with no trigger on top
KindGraphs ==
    {parseWorkspace(<<t, k>> \o tail, <<>>) :
        t \in AllTriggers, k \in AllPlain, tail \in {<<>>, <<SendBack>>}}
    \cup {parseWorkspace(<<t, u, SendBch(<<>>)>>, <<>>) : t \in AllTriggers, u \in AllTriggers}
    \cup {parseWorkspace(<<k>> \o tail, <<>>) : k \in AllPlain, tail \in {<<>>, <<SendBack>>}}
    \cup {parseWorkspace(<<>>, <<>>)}

\* 3. one conditional in the main chain: blocks before it, its two arms
\*    (one of them of up to MaxArm blocks), blocks after it
BranchBlocks == {SendBch(<<>>), SendBack, SplitPercent(30)}
Around == SeqsUpTo({SendBch(<<>>)}, 1)
LongArms == SeqsUpTo(BranchBlocks, MaxArm)
ShortArms == SeqsUpTo(BranchBlocks, 1)

BranchGraphs ==
    {parseWorkspace(<<BchReceived(1000)>> \o pre \o <<IfElse(arms[1], arms[2])>> \o post, <<>>) :
        pre \in Around, post \in Around,
        arms \in (LongArms \X ShortArms) \cup (ShortArms \X LongArms)}

\* 4. a conditional nested in an arm of another, with blocks around both
NestBlocks == {SendBch(<<>>), SendBack}
Short == SeqsUpTo(NestBlocks, 1)

NestedArms == {pre \o <<InnerIfElse(a, b)>> \o post : pre \in Short, post \in Short,
                                                       a \in Short, b \in Short}

NestedGraphs ==
    {parseWorkspace(<<BchReceived(1000)>> \o pre \o <<IfElse(arm, other)>> \o post, <<>>) :
        pre \in Around, post \in Around, arm \in NestedArms, other \in Short}
    \cup {parseWorkspace(<<BchReceived(1000)>> \o pre \o <<IfElse(other, arm)>>, <<>>) :
        pre \in Around, arm \in NestedArms, other \in Short}

\* 5. blocks that no child list names: loose on the canvas, or plugged into
\*    a conditional's CONDITION socket
FloatBlocks == {SendBch(<<>>), SendBch(BadAddress), CompareValue(">", 50000), CheckAddress,
                TimePassed(30), IfElse(<<SendBack>>, <<>>)}
FloatMains == {<<t>> \o chain : t \in {BchReceived(1000), HashLock("")},
                                chain \in SeqsUpTo({SendBack, StoreInNft,
                                                    IfElse(<<SendBack>>, <<SendBch(<<>>)>>)}, 1)}

FloatingGraphs ==
    {parseWorkspace(main, floating) :
        main \in FloatMains, floating \in SeqsUpTo(FloatBlocks, 2) \ {<<>>}}

\* 6. two or three blocks with a recipient each, in a chain or around a conditional
ArmRecipients == {ContractAddress, BadAddress, <<>>}

RecipientGraphs ==
    {parseWorkspace(<<BchReceived(1000), SendBch(r[1]), SendToken(r[2], "")>>, <<>>) :
        r \in (BadRecipients \cup {HexHash, <<>>}) \X (BadRecipients \cup {HexHash, <<>>})}
    \cup {parseWorkspace(<<BchReceived(1000),
                           IfElse(<<SendBch(r[1])>>, <<SendToken(r[2], "")>>),
                           SendBch(r[3])>>, <<>>) :
            r \in ArmRecipients \X ArmRecipients \X ArmRecipients}

ParsedGraphs ==
    ChainGraphs \cup KindGraphs \cup BranchGraphs \cup NestedGraphs \cup FloatingGraphs
        \cup RecipientGraphs

\* 7. graphs written by hand (deserializeGraph accepts any): a parsed graph
\*    whose root is null, names no node or names the second block, with
\*    one more edge in front of its edge list, or with one more child id
\*    (and its edge) on a node;
\*    the target may be any node (also an earlier one: a cycle) or no node
Ghost == "ghost"

EdgeTypes == {"next", "condition_true", "condition_false"}

HandBases ==
    {parseWorkspace(main, floating) :
        main \in {<<BchReceived(1000), SendBack>>,
                  <<BchReceived(1000), IfElse(<<SendBack>>, <<SendBch(<<>>)>>)>>,
                  <<BchReceived(1000), IfElse(<<SendBch(<<>>)>>, <<>>), SendBack>>,
                  <<BchReceived(1000), IfElse(<<InnerIfElse(<<SendBack>>, <<>>)>>, <<>>)>>},
        floating \in {<<>>, <<SendBch(BadAddress)>>}}

\* workspaces without any action block
BareBases ==
    {parseWorkspace(main, <<>>) :
        main \in {<<BchReceived(1000)>>, <<BchReceived(1000), CheckAddress>>}}

Ids(g) == {g.nodes[i].id : i \in 1..Len(g.nodes)}

WithEdge(g, from, to, type) ==
    [g EXCEPT !.edges = <<[from |-> from, to |-> to, type |-> type]>> \o @]

WithChild(g, i, to, type) ==
    [g EXCEPT !.nodes[i].children = Append(@, to),
              !.edges = Append(@, [from |-> g.nodes[i].id, to |-> to, type |-> type])]

HandGraphs ==
    {[g EXCEPT !.trigger = r] : g \in HandBases, r \in {Null, Ghost, "b2"}}
    \cup {[g EXCEPT !.trigger = r] : g \in BareBases, r \in {Null, Ghost}}
    \cup {WithEdge(g, from, to, type) :
            g \in HandBases, from \in {"b1", "b2", "b2t1"}, to \in {"b1", "b2", "b2t1", "f1", Ghost},
            type \in EdgeTypes}
    \cup {WithChild(g, i, to, type) :
            g \in HandBases, i \in 1..2, to \in {"b1", "b2", "b2t1", "f1", Ghost},
            type \in EdgeTypes}
    \cup {WithChild(g, 3, to, type) :
            g \in {h \in HandBases : Len(h.nodes) >= 3},
            to \in {"b1", "b2", "b2t1", "f1", Ghost}, type \in EdgeTypes}

Graphs == ParsedGraphs \cup HandGraphs

(***************************************************************************)
(* The condition resolver of the parser: what is plugged into the          *)
(* CONDITION socket of a conditional becomes its conditionExpr parameter.  *)
(***************************************************************************)
\* getInputTargetBlock of an empty socket
NoBlock == [type |-> "none"]

AndBlock(a, b) == [type |-> "AND", A |-> a, B |-> b]
OrBlock(a, b) == [type |-> "OR", A |-> a, B |-> b]
CompareBlock(op, n) == [type |-> "COMPARE_VALUE", operator |-> op, threshold |-> n]
OtherBlock == [type |-> "CHECK_ADDRESS"]

\* a variant of the resolver that reads an empty operand socket as false
RECURSIVE extractConditionExprEmptyFalse(_)
extractConditionExprEmptyFalse(block) ==
    IF block.type = "none" THEN "true"
    ELSE IF block.type \in {"AND", "OR"}
    THEN LET sub(b) == IF b.type = "none" THEN "false"
                       ELSE extractConditionExprEmptyFalse(b)
         IN  "(" \o sub(block.A)
                 \o (IF block.type = "AND" THEN " && " ELSE " || ")
                 \o sub(block.B) \o ")"
    ELSE IF block.type = "COMPARE_VALUE"
    THEN "tx.inputs[0].value " \o block.operator \o " " \o ToString(block.threshold)
    ELSE "true"

RECURSIVE extractConditionExpr(_)
extractConditionExpr(block) ==
    IF block.type = "none" THEN "true"
    ELSE CASE block.type = "AND" ->
                "(" \o extractConditionExpr(block.A) \o " && "
                    \o extractConditionExpr(block.B) \o ")"
           [] block.type = "OR" ->
                "(" \o extractConditionExpr(block.A) \o " || "
                    \o extractConditionExpr(block.B) \o ")"
           [] block.type = "COMPARE_VALUE" ->
                "tx.inputs[0].value " \o block.operator \o " " \o ToString(block.threshold)
           [] OTHER -> "true"

\* the blocks of a socket are blocks of the workspace: each becomes a node
\* that no child list names and no edge touches
RECURSIVE SocketNodes(_, _)
SocketNodes(block, id) ==
    IF block.type = "none" THEN <<>>
    ELSE << [id |-> id, type |-> block.type, category |-> getBlockCategory(block.type),
             params |-> IF block.type = "COMPARE_VALUE"
                        THEN [operator |-> block.operator, threshold |-> block.threshold]
                        ELSE NoParams,
             children |-> <<>>] >>
         \o (IF block.type \in {"AND", "OR"}
             THEN SocketNodes(block.A, id \o "a") \o SocketNodes(block.B, id \o "b")
             ELSE <<>>)

\* bound of the enumeration: AND and OR blocks in one socket
MaxOperators == 2

Operands == {NoBlock, CompareBlock(">", 50000), CompareBlock("<=", 200000), OtherBlock}

RECURSIVE SocketsWith(_)
SocketsWith(k) ==
    IF k = 0 THEN Operands
    ELSE UNION {{AndBlock(a, b) : a \in SocketsWith(i), b \in SocketsWith(k - 1 - i)}
                \cup {OrBlock(a, b) : a \in SocketsWith(i), b \in SocketsWith(k - 1 - i)} :
                i \in 0..(k - 1)}

Sockets == UNION {SocketsWith(k) : k \in 0..MaxOperators}

\* a workspace whose conditional carries the socket c, parsed
ConditionGraph(c) ==
    LET g == parseWorkspace(<<BchReceived(1000),
                              IfBlock([conditionExpr |-> extractConditionExpr(c)],
                                      <<SendBack>>, <<SendBch(<<>>)>>)>>, <<>>)
    IN  [g EXCEPT !.nodes = @ \o SocketNodes(c, "c")]

\* the same graph written by hand without the parameter
WithoutConditionExpr(g) == [g EXCEPT !.nodes[2].params = NoParams]


(***************************************************************************)
(* The deployment history (services/deployments.ts): localStorage holds,   *)
(* per network, the JSON text of a list of records.                        *)
(***************************************************************************)
STORAGE_PREFIX == "cashblocks_deployments"

storageKey(network) == STORAGE_PREFIX \o "_" \o network

HistoryLimit == 20

\* the value of a constructor argument: a string or a bigint; an argument
\* without a value has no value key
StringValue(text) == [kind |-> "string", text |-> text]
BigintValue(n) == [kind |-> "bigint", n |-> n]

IsBigint(arg) == "value" \in DOMAIN arg /\ arg.value.kind = "bigint"

\* serializeArgs: a bigint value becomes its decimal string
serializeArgs(args) ==
    [i \in 1..Len(args) |->
        IF IsBigint(args[i])
        THEN [args[i] EXCEPT !.value = StringValue(ToString(args[i].value.n))]
        ELSE args[i]]

\* createDeploymentRecord; stamp stands for Date.now() and the random suffix
createDeploymentRecord(params, stamp) ==
    [id |-> "dep-" \o ToString(stamp), address |-> params.address,
     network |-> params.network, constructorArgs |-> serializeArgs(params.constructorArgs)]

\* JSON.stringify of a list of records throws on a bigint
JsonThrows(list) ==
    \E i \in 1..Len(list) :
        \E j \in 1..Len(list[i].constructorArgs) : IsBigint(list[i].constructorArgs[j])

\* localStorage: a function from the keys that were set to what they hold
\* (the list that JSON.parse gives for the stored text)
EmptyStorage == [k \in {} |-> <<>>]

loadDeployments(store, network) ==
    IF storageKey(network) \in DOMAIN store THEN store[storageKey(network)] ELSE <<>>

setItem(store, key, list) ==
    IF JsonThrows(list) THEN store
    ELSE [k \in DOMAIN store \cup {key} |-> IF k = key THEN list ELSE store[k]]

\* findIndex: the first place of the list whose record has the id, or 0
findIndex(list, id) ==
    IF \E i \in 1..Len(list) : list[i].id = id
    THEN CHOOSE i \in 1..Len(list) :
            list[i].id = id /\ \A j \in 1..(i - 1) : list[j].id # id
    ELSE 0

slice(list, n) == SubSeq(list, 1, IF Len(list) < n THEN Len(list) ELSE n)

\* a variant of saveDeployment that puts a new record last
saveDeploymentAppend(store, record) ==
    IF record.network = "" THEN store
    ELSE IF findIndex(loadDeployments(store, record.network), record.id) > 0
    THEN setItem(store, storageKey(record.network),
                 slice([loadDeployments(store, record.network) EXCEPT
                     ![findIndex(loadDeployments(store, record.network), record.id)] = record],
                     HistoryLimit))
    ELSE setItem(store, storageKey(record.network),
                 slice(Append(loadDeployments(store, record.network), record), HistoryLimit))

\* the list a save writes: the record in the place of the stored one with
\* its id, or before all the others
savedList(list, record, existingIndex) ==
    IF existingIndex > 0 THEN [list EXCEPT ![existingIndex] = record]
    ELSE <<record>> \o list

saveDeployment(store, record) ==
    IF record.network = "" THEN store
    ELSE setItem(store, storageKey(record.network),
                 slice(savedList(loadDeployments(store, record.network), record,
                                 findIndex(loadDeployments(store, record.network), record.id)),
                       HistoryLimit))

\* bound of the enumeration: records created
MaxCreated == 21

Networks == {"CHIPNET", "MAINNET"}

FirstAddress == "bchtest:p0"
MovedAddress == "bchtest:p1"

\* what the deploy panel passes to createDeploymentRecord
DeployParams(network) ==
    [address |-> FirstAddress, network |-> network,
     constructorArgs |->
        IF network = "CHIPNET"
        THEN << [name |-> "unlockTime", type |-> "int", value |-> BigintValue(1700000000)] >>
        ELSE << [name |-> "recipientHash", type |-> "bytes20"] >>]

StoredRecords(store) ==
    UNION {{store[k][i] : i \in 1..Len(store[k])} : k \in DOMAIN store}

(***************************************************************************)
(* The state machine: a graph arrives, compile is applied to it.           *)
(***************************************************************************)
NotCompiled == [pending |-> TRUE]

NoCall == [network |-> ""]

\* socket is recorded where the workspace is given as blocks
NotRecorded == [type |-> "unrecorded"]

Init ==
    /\ graph \in Graphs
    /\ socket = NotRecorded
    /\ storage = EmptyStorage
    /\ call = NoCall
    /\ created = 0
    /\ pc = "ready"
    /\ result = NotCompiled

\* a variant of the step whose sequencer reorders the node list of its argument
CompileSortingInPlace ==
    /\ pc = "ready"
    /\ result' = compile(graph)
    /\ pc' = "done"
    /\ graph' = [graph EXCEPT !.nodes = sortNodes(graph)]
    /\ UNCHANGED <<socket, storage, call, created>>

Compile ==
    /\ pc = "ready"
    /\ result' = compile(graph)
    /\ pc' = "done"
    /\ UNCHANGED <<graph, socket, storage, call, created>>

Next == Compile

Spec == Init /\ [][Next]_vars

\* the parser resolves a socket, the compiler compiles the graph
InitCondition ==
    /\ socket \in Sockets
    /\ storage = EmptyStorage
    /\ call = NoCall
    /\ created = 0
    /\ graph \in {ConditionGraph(socket), WithoutConditionExpr(ConditionGraph(socket))}
    /\ pc = "ready"
    /\ result = NotCompiled

SpecCondition == InitCondition /\ [][Next]_vars

\* the deploy panel saves records: a new deployment on a network (or with
\* no network chosen), or a record whose id is stored, with another address,
\* for its own network or for another one
InitDeployments ==
    /\ graph = parseWorkspace(<<BchReceived(1000), SendBack>>, <<>>)
    /\ socket = NotRecorded
    /\ pc = "ready"
    /\ result = NotCompiled
    /\ storage = EmptyStorage
    /\ call = NoCall
    /\ created = 0

SaveNew ==
    /\ created < MaxCreated
    /\ \E network \in Networks \cup {""} :
          /\ network = "MAINNET" => loadDeployments(storage, "MAINNET") = <<>>
          /\ call' = createDeploymentRecord(DeployParams(network), created + 1)
          /\ storage' = saveDeployment(storage, call')
          /\ created' = IF network = "" THEN created ELSE created + 1
    /\ UNCHANGED <<graph, socket, pc, result>>

SaveAgain ==
    /\ \A r \in StoredRecords(storage) : r.address = FirstAddress
    /\ \E r \in StoredRecords(storage), network \in Networks \cup {""} :
          /\ call' = [r EXCEPT !.address = MovedAddress, !.network = network]
          /\ storage' = saveDeployment(storage, call')
    /\ UNCHANGED <<graph, socket, pc, result, created>>

NextDeployments == SaveNew \/ SaveAgain

SpecDeployments == InitDeployments /\ [][NextDeployments]_vars

(***************************************************************************)
(* Properties                                                              *)
(***************************************************************************)
Done == pc = "done"

IsError == Has(result, "error")
IsSuccess == Has(result, "source") /\ ~Has(result, "error")

\* a one-line message holds the word w as one of its tokens
Mentions(message, w) == \E i \in 1..Len(message[1]) : message[1][i] = w

NoActionNode(g) == \A i \in 1..Len(g.nodes) : g.nodes[i].category # "action"
RootInNodes(g) == \E i \in 1..Len(g.nodes) : g.nodes[i].id = g.trigger

\* C1: a graph whose root is null compiles to an empty source, no
\* constructor argument and the missing-trigger message alone: the message
\* has the word "trigger" and reports neither the root-not-found rule nor
\* the no-action rule, whatever the node set holds.
C1_NullRoot ==
    (Done /\ graph.trigger = Null) =>
        /\ IsError
        /\ result.source = EmptyText
        /\ result.constructorArgs = <<>>
        /\ Len(result.error) = 1
        /\ Mentions(result.error, "trigger")
        /\ ~Mentions(result.error, "action")
        /\ ~Mentions(result.error, "; ")
        /\ result.error # MsgTriggerNotFound

\* the root is null and the node set has no action (rule 3 would apply too)
C1_Witness ==
    /\ Done /\ graph.trigger = Null
    /\ Len(graph.nodes) > 0 /\ NoActionNode(graph)
    /\ IsError

\* C2: a graph whose root is in the node set and whose node set has no
\* Action-category node compiles to an empty source and an error that
\* mentions "action".
C2_NoAction ==
    (Done /\ graph.trigger # Null /\ RootInNodes(graph) /\ NoActionNode(graph)) =>
        /\ IsError
        /\ result.source = EmptyText
        /\ Mentions(result.error, "action")

C2_Witness ==
    /\ Done /\ graph.trigger # Null /\ RootInNodes(graph) /\ NoActionNode(graph)
    /\ Len(graph.nodes) > 1
    /\ IsError

\* C3: in every CompileResult, error is set exactly when the source is the
\* empty string, and an error comes with no constructor argument.
C3_ErrorIffEmptySource ==
    (Done /\ result # NoResult) =>
        /\ IsError <=> result.source = EmptyText
        /\ IsError => result.constructorArgs = <<>>

\* a template error raised after an earlier node had asked for arguments
C3_Witness ==
    /\ Done /\ IsError
    /\ validateGraph(graph) = <<>>
    /\ \E i \in 1..Len(sortNodes(graph)) :
          LET n == sortNodes(graph)[i] IN
          Len(getBlockTemplate(n.type, n.params, n.category, 0).constructorArgs) > 0

\* Every argument the nodes of a sequence request from the template library,
\* node after node, each node's arguments in the order its template lists them
RECURSIVE RequestedArgs(_, _)
RequestedArgs(nodes, i) ==
    IF i > Len(nodes) THEN <<>>
    ELSE getBlockTemplate(nodes[i].type, nodes[i].params, nodes[i].category, 0).constructorArgs
         \o RequestedArgs(nodes, i + 1)

FirstRequest(requested, name) ==
    CHOOSE k \in 1..Len(requested) :
        /\ requested[k].name = name
        /\ \A j \in 1..(k - 1) : requested[j].name # name

SameNameRequests(requested) ==
    {pair \in (1..Len(requested)) \X (1..Len(requested)) :
        /\ pair[1] < pair[2]
        /\ requested[pair[1]].name = requested[pair[2]].name}

\* C5: in a successful result no two constructor arguments have the same
\* name; every requested name has an entry; each entry is the whole record
\* (name, type, timeOffsetSeconds) of the first request of its name in
\* sequence order; and the entries are in the order of those first requests.
C5_FirstRequestWins ==
    (Done /\ IsSuccess) =>
        LET args == result.constructorArgs
            requested == RequestedArgs(sortNodes(graph), 1)
        IN  /\ \A i, j \in 1..Len(args) : args[i].name = args[j].name => i = j
            /\ {args[i].name : i \in 1..Len(args)}
                 = {requested[k].name : k \in 1..Len(requested)}
            /\ \A i \in 1..Len(args) :
                 args[i] = requested[FirstRequest(requested, args[i].name)]
            /\ \A i, j \in 1..Len(args) :
                 i < j => FirstRequest(requested, args[i].name)
                            < FirstRequest(requested, args[j].name)

\* two nodes request one name with different records (two time triggers with
\* different offsets), and another name is requested as well
C5_Witness ==
    /\ Done /\ IsSuccess
    /\ LET requested == RequestedArgs(sortNodes(graph), 1) IN
       /\ \E pair \in SameNameRequests(requested) :
            requested[pair[1]] # requested[pair[2]]
       /\ Len(result.constructorArgs) > 1
       /\ Len(result.constructorArgs) < Len(requested)



\* The ids of the nodes reachable from the root through child lists (the
\* least set holding the root and the children of its members), computed
\* without the traversal of sortNodes
RECURSIVE ReachFrom(_, _)
ReachFrom(g, R) ==
    LET ChildrenOf(i) == {g.nodes[i].children[c] : c \in 1..Len(g.nodes[i].children)}
        more == UNION {ChildrenOf(i) : i \in {k \in 1..Len(g.nodes) : g.nodes[k].id \in R}} \ R
    IN  IF more = {} THEN R ELSE ReachFrom(g, R \cup more)

Reach(g) == ReachFrom(g, {g.trigger}) \cap Ids(g)

KeepNode(g, n) == n.id \in Reach(g)
LeavesReachable(g, e) == e.from \in Reach(g)
AmongReachable(g, e) == e.from \in Reach(g) /\ e.to \in Reach(g)

\* the graph without its unreachable nodes and without the edges that leave them
Prune(g) ==
    [trigger |-> g.trigger,
     nodes |-> SelectSeq(g.nodes, LAMBDA n : KeepNode(g, n)),
     edges |-> SelectSeq(g.edges, LAMBDA e : LeavesReachable(g, e))]

\* the graph without its unreachable nodes, with only the edges between reachable nodes
Among(g) ==
    [trigger |-> g.trigger,
     nodes |-> SelectSeq(g.nodes, LAMBDA n : KeepNode(g, n)),
     edges |-> SelectSeq(g.edges, LAMBDA e : AmongReachable(g, e))]

NodeRaises(n) == Has(getBlockTemplate(n.type, n.params, n.category, 0), "error")
NodeEmits(n) == getBlockTemplate(n.type, n.params, n.category, 0).code # EmptyText
NodeRequests(n) == getBlockTemplate(n.type, n.params, n.category, 0).constructorArgs # <<>>

\* C6 as amended: the result of a graph that passes validation is determined
\* by its root, its reachable nodes with their child lists, and the list of
\* its edges that leave reachable nodes; unreachable nodes and the edges
\* leaving them change nothing (so two such graphs that agree on these
\* compile to identical results).
C6_UnreachableExcluded ==
    (Done /\ validateGraph(graph) = <<>>) => result = CompileSteps(Prune(graph))

\* an unreachable node that would raise a template error, one that would emit
\* code and request an argument, and an edge leaving an unreachable node
C6_Witness ==
    /\ Done /\ validateGraph(graph) = <<>> /\ IsSuccess
    /\ \E i, j \in 1..Len(graph.nodes) :
          /\ graph.nodes[i].id \notin Reach(graph) /\ NodeRaises(graph.nodes[i])
          /\ graph.nodes[j].id \notin Reach(graph) /\ NodeEmits(graph.nodes[j])
          /\ NodeRequests(graph.nodes[j])
    /\ Len(Prune(graph).edges) < Len(graph.edges)

\* C6 as stated: two graphs that pass validation and have the same root, the
\* same reachable nodes with the same child lists and the same edges among
\* those nodes compile to identical results (here: the graph and the graph
\* reduced to its reachable nodes and the edges among them).
C6_SameEdgesAmongReachable ==
    (Done /\ validateGraph(graph) = <<>> /\ validateGraph(Among(graph)) = <<>>) =>
        result = compile(Among(graph))



\* ---- the output-slot counter, read off the graph and off the source text ----

\* A graph shaped as parseWorkspace shapes it: the root is a node, the
\* reachable part is a tree, and the edges leaving each reachable node are
\* its child list ([next, then, else], the last two on conditionals only).
ChildByEdge(g, n, type) ==
    IF HasEdge(g.edges, n.id, type) THEN << EdgeTo(g.edges, n.id, type) >> ELSE <<>>

ParentsOf(g, R, id) ==
    {pair \in (1..Len(g.nodes)) \X (1..3) :
        /\ g.nodes[pair[1]].id \in R
        /\ pair[2] <= Len(g.nodes[pair[1]].children)
        /\ g.nodes[pair[1]].children[pair[2]] = id}

AsParsed(g) ==
    /\ RootInNodes(g)
    /\ LET R == Reach(g) IN
       \A i \in 1..Len(g.nodes) :
          g.nodes[i].id \in R =>
             LET n == g.nodes[i] IN
             /\ n.children = ChildByEdge(g, n, "next") \o ChildByEdge(g, n, "condition_true")
                                \o ChildByEdge(g, n, "condition_false")
             /\ Len(SelectSeq(g.edges, LAMBDA e : e.from = n.id)) = Len(n.children)
             /\ n.type # "IF_ELSE" => Len(n.children) = Len(ChildByEdge(g, n, "next"))
             /\ \A c \in 1..Len(n.children) : n.children[c] \in Ids(g)
             /\ Cardinality(ParentsOf(g, R, n.id)) = IF n.id = g.trigger THEN 0 ELSE 1

Parent(g, id) ==
    MapGet(g.nodes, g.nodes[(CHOOSE pair \in ParentsOf(g, Reach(g), id) : TRUE)[1]].id)

SlotClaiming(n) == n.category = "action" /\ n.type # "SPLIT_PERCENT"

\* the number of slots claimed on the way from the root to a node of an
\* AsParsed graph: the slot-claiming actions among its ancestors
RECURSIVE CounterAt(_, _)
CounterAt(g, id) ==
    IF id = g.trigger THEN 0
    ELSE LET p == Parent(g, id) IN
         CounterAt(g, p.id) + (IF SlotClaiming(p) THEN 1 ELSE 0)

\* a text without the indentation of its lines
RECURSIVE Unindent(_)
Unindent(line) ==
    IF line # <<>> /\ line[1] \in {I4, I8, I12} THEN Unindent(Tail(line)) ELSE line

Flat(text) == [i \in 1..Len(text) |-> Unindent(text[i])]

\* what the template library gives for node n at slot k, as lines without indentation
Frag(n, k) == Flat(getBlockTemplate(n.type, n.params, n.category, k).code)

\* the slot numbers a text refers to
SlotsOf(text) ==
    LET toks == Tokens(text) IN
    {toks[i + 1] : i \in {j \in 1..(Len(toks) - 1) : toks[j] = "tx.outputs["}}

Occurrences(text, part) ==
    Cardinality({q \in 1..(Len(text) - Len(part) + 1) :
                    SubSeq(text, q, q + Len(part) - 1) = part})



\* the next node of the chain after a node that is not a conditional
NextOf(g, n) == MapGet(g.nodes, n.children[1])

\* the reachable splits whose chain goes on with two slot-claiming actions
SplitPlaces(g) ==
    {i \in 1..Len(g.nodes) :
        /\ g.nodes[i].id \in Reach(g)
        /\ g.nodes[i].type = "SPLIT_PERCENT"
        /\ Len(g.nodes[i].children) > 0
        /\ SlotClaiming(NextOf(g, g.nodes[i]))
        /\ Len(NextOf(g, g.nodes[i]).children) > 0
        /\ SlotClaiming(NextOf(g, NextOf(g, g.nodes[i])))}

\* the lines such a split and the two actions after it must give when the
\* counter is k at the split: split at k (and k + 1), blank line, first
\* action at k, blank line, second action at k + 1
SplitLines(g, i, k) ==
    LET a == NextOf(g, g.nodes[i])
        b == NextOf(g, a)
    IN  Frag(g.nodes[i], k) \o << <<>> >> \o Frag(a, k) \o << <<>> >> \o Frag(b, k + 1)

SplitExpected(g, i) == SplitLines(g, i, CounterAt(g, g.nodes[i].id))

\* C7: in the source of a graph shaped as the parser shapes it, every split
\* reached with the counter at k and followed by two slot-claiming actions
\* appears as: ratio guard on slots k and k + 1, then the first action on
\* slot k, then the second on slot k + 1 (k being the number of slots claimed
\* before the split, so the split itself claims none).
C7_SplitSlots ==
    (Done /\ IsSuccess /\ AsParsed(graph)) =>
        \A i \in SplitPlaces(graph) :
            LET k == CounterAt(graph, graph.nodes[i].id)
                a == NextOf(graph, graph.nodes[i])
                b == NextOf(graph, a)
            IN  /\ SlotsOf(Frag(graph.nodes[i], k)) = {ToString(k), ToString(k + 1)}
                /\ SlotsOf(Frag(a, k)) = {ToString(k)}
                /\ SlotsOf(Frag(b, k + 1)) = {ToString(k + 1)}
                /\ Occurrences(Flat(result.source), SplitExpected(graph, i))
                     = Cardinality({j \in SplitPlaces(graph) :
                                       SplitExpected(graph, j) = SplitExpected(graph, i)})

\* a split that opens an arm of a conditional, after one slot was claimed
\* before the conditional, followed by two actions
C7_Witness ==
    /\ Done /\ IsSuccess /\ AsParsed(graph)
    /\ \E i \in SplitPlaces(graph) :
          /\ CounterAt(graph, graph.nodes[i].id) = 1
          /\ Parent(graph, graph.nodes[i].id).type = "IF_ELSE"
          /\ HasEdge(graph.edges, Parent(graph, graph.nodes[i].id).id, "condition_true")
          /\ EdgeTo(graph.edges, Parent(graph, graph.nodes[i].id).id, "condition_true")
               = graph.nodes[i].id

\* ---- a conditional's wrapper in the source text (lines without indentation) ----
IfLine(n) == <<"if (", Get(n.params, "conditionExpr", "true"), ") {">>
ElseLine == <<"} else {">>
CloseLine == <<"}">>

IsIfLine(line) == line # <<>> /\ line[1] = "if ("

\* the first line from q on that is `line` outside every if-block opened from q on
RECURSIVE FindAtDepth(_, _, _, _)
FindAtDepth(lines, q, depth, line) ==
    IF q > Len(lines) THEN 0
    ELSE IF depth = 0 /\ lines[q] = line THEN q
    ELSE IF IsIfLine(lines[q]) THEN FindAtDepth(lines, q + 1, depth + 1, line)
    ELSE IF lines[q] = CloseLine THEN FindAtDepth(lines, q + 1, depth - 1, line)
    ELSE FindAtDepth(lines, q + 1, depth, line)

IfAt(lines, n) == CHOOSE q \in 1..Len(lines) : lines[q] = IfLine(n)
ElseAt(lines, n) == FindAtDepth(lines, IfAt(lines, n) + 1, 0, ElseLine)
CloseAt(lines, n) == FindAtDepth(lines, ElseAt(lines, n) + 1, 0, CloseLine)

\* the lines of the THEN arm and of the ELSE arm of conditional n
ThenPart(lines, n) == SubSeq(lines, IfAt(lines, n) + 1, ElseAt(lines, n) - 1)
ElsePart(lines, n) == SubSeq(lines, ElseAt(lines, n) + 1, CloseAt(lines, n) - 1)

\* the slot numbers a text refers to, in the order of the text
SlotSeq(text) ==
    LET toks == Tokens(text) IN
    [r \in 1..Len(SelectSeq(toks, LAMBDA t : t = "tx.outputs[")) |->
        toks[1 + CHOOSE j \in 1..Len(toks) :
                    /\ toks[j] = "tx.outputs["
                    /\ Cardinality({h \in 1..j : toks[h] = "tx.outputs["}) = r]]

IsPrefix(part, text) == Len(part) <= Len(text) /\ SubSeq(text, 1, Len(part)) = part

\* an arm that starts at node e holds slot numbers that start at k, and
\* opens with e's own lines at slot k (or with e's wrapper when e is a conditional)
ArmStartsAt(g, part, e, k) ==
    /\ SlotSeq(part) # <<>> => SlotSeq(part)[1] = ToString(k)
    /\ e.type = "IF_ELSE" => part # <<>> /\ part[1] = IfLine(e)
    /\ e.category = "action" => IsPrefix(Frag(e, k), part) /\ SlotSeq(part) # <<>>

IfPlaces(g) ==
    {i \in 1..Len(g.nodes) : g.nodes[i].id \in Reach(g) /\ g.nodes[i].type = "IF_ELSE"}

ArmEntry(g, n, type) == MapGet(g.nodes, EdgeTo(g.edges, n.id, type))

\* C8: in the source of a graph shaped as the parser shapes it, every
\* reachable conditional, at top level or inside an arm of another, is
\* emitted once, and when the counter is k at the conditional (k slots
\* claimed before it) the slot numbers of its THEN arm start at k and the
\* slot numbers of its ELSE arm start at k as well.
C8_ArmsStartAtSameSlot ==
    (Done /\ IsSuccess /\ AsParsed(graph)) =>
        \A i \in IfPlaces(graph) :
            LET n == graph.nodes[i]
                k == CounterAt(graph, n.id)
                lines == Flat(result.source)
            IN  /\ Occurrences(lines, << IfLine(n) >>) = 1
                /\ ElseAt(lines, n) > 0
                /\ CloseAt(lines, n) > 0
                /\ HasEdge(graph.edges, n.id, "condition_true") =>
                     ArmStartsAt(graph, ThenPart(lines, n),
                                 ArmEntry(graph, n, "condition_true"), k)
                /\ HasEdge(graph.edges, n.id, "condition_false") =>
                     ArmStartsAt(graph, ElsePart(lines, n),
                                 ArmEntry(graph, n, "condition_false"), k)

\* a conditional inside an arm of another, reached after two slots were
\* claimed, whose two arms both start with an action
C8_Witness ==
    /\ Done /\ IsSuccess /\ AsParsed(graph)
    /\ \E i \in IfPlaces(graph) :
          LET n == graph.nodes[i] IN
          /\ n.id \in branchNodeIds(sortNodes(graph), graph.edges)
          /\ CounterAt(graph, n.id) = 2
          /\ HasEdge(graph.edges, n.id, "condition_true")
          /\ HasEdge(graph.edges, n.id, "condition_false")
          /\ ArmEntry(graph, n, "condition_true").category = "action"
          /\ ArmEntry(graph, n, "condition_false").category = "action"
          /\ SlotSeq(ThenPart(Flat(result.source), n))[1] = "2"
          /\ SlotSeq(ElsePart(Flat(result.source), n))[1] = "2"

\* ---- the two-block contracts: a time trigger and a SEND_BCH ----
TimeThenSend(g) ==
    /\ Len(g.nodes) = 2 /\ AsParsed(g)
    /\ g.nodes[1].id = g.trigger /\ g.nodes[1].type = "TIME_PASSED"
    /\ g.nodes[1].children = << g.nodes[2].id >>
    /\ g.nodes[2].type = "SEND_BCH"

Recipient(g) == Get(g.nodes[2].params, "recipientHash", Undefined)

TimeGuard == <<"require(tx.time >= ", "unlockTime", ");">>

IsOutputGuard(line) == \E j \in 1..Len(line) : line[j] = "tx.outputs["

LineOf(lines, line) == CHOOSE q \in 1..Len(lines) : lines[q] = line

\* C9: Trigger(TIME_PASSED, days set) -> SEND_BCH(recipient unset) compiles
\* without error to exactly two constructor arguments, unlockTime (int) then
\* recipientHash (bytes20); the body holds the time guard on unlockTime once,
\* before every output guard, and the output guards are on slot 0.
C9_TimeLockedSend ==
    (Done /\ TimeThenSend(graph) /\ Has(graph.nodes[1].params, "days")
          /\ Recipient(graph) \in UnsetRecipients \cup {Undefined}) =>
        /\ IsSuccess
        /\ Len(result.constructorArgs) = 2
        /\ result.constructorArgs[1].name = "unlockTime"
        /\ result.constructorArgs[1].type = "int"
        /\ result.constructorArgs[2] = [name |-> "recipientHash", type |-> "bytes20"]
        /\ LET lines == Flat(result.source) IN
           /\ Occurrences(lines, << TimeGuard >>) = 1
           /\ \E q \in 1..Len(lines) : IsOutputGuard(lines[q])
           /\ \A q \in 1..Len(lines) :
                IsOutputGuard(lines[q]) => LineOf(lines, TimeGuard) < q
           /\ SlotsOf(result.source) = {"0"}

\* the spec's scenario: 90 days, no recipient
C9_Witness ==
    /\ Done /\ TimeThenSend(graph) /\ IsSuccess
    /\ graph.nodes[1].params = [days |-> 90]
    /\ Recipient(graph) = <<>>
    /\ result.constructorArgs[1].timeOffsetSeconds = 7776000

\* a recipient written as 0x and the 40 hexadecimal digits of a 20-byte
\* hash (blanks around it allowed): the digits, or <<>> when it is not one
HashDigits(r) ==
    LET t == Trim(r) IN
    IF /\ Len(t) = 2 + HashHexLen
       /\ t[1] = "0" /\ t[2] = "x"
       /\ \A j \in 3..Len(t) : t[j] \in HexDigits
    THEN SubSeq(t, 3, Len(t)) ELSE <<>>

LiteralGuard(h) ==
    <<"require(">> \o OutRef(0) \o <<".lockingBytecode == new LockingBytecodeP2PKH(", "0x">>
        \o h \o <<"));">>

DaysTrigger(g) ==
    /\ Has(g.nodes[1].params, "days")
    /\ Get(g.nodes[1].params, "timeUnit", "DAYS") = "DAYS"

\* C10 as amended: a time trigger of N days followed by a SEND_BCH whose
\* recipient is a 20-byte hash written as 0x and 40 hexadecimal digits
\* compiles without error to exactly one constructor argument, unlockTime
\* (int, offset N days): the recipient is inlined, there is no recipientHash
\* argument, and the output guard names the literal 0x and the digits in
\* lower case.
C10_LiteralRecipient ==
    (Done /\ TimeThenSend(graph) /\ DaysTrigger(graph)
          /\ HashDigits(Recipient(graph)) # <<>>) =>
        /\ IsSuccess
        /\ result.constructorArgs
             = << [name |-> "unlockTime", type |-> "int",
                   timeOffsetSeconds |-> graph.nodes[1].params.days * 86400] >>
        /\ Occurrences(Flat(result.source),
                       << LiteralGuard([j \in 1..HashHexLen |->
                              LowerChar(HashDigits(Recipient(graph))[j])]) >>) = 1
        /\ \A j \in 1..Len(Tokens(result.source)) :
              Tokens(result.source)[j] # "recipientHash"

\* a hash written with upper-case digits and blanks around it, after a trigger of two days
C10_Witness ==
    /\ Done /\ TimeThenSend(graph) /\ DaysTrigger(graph) /\ IsSuccess
    /\ graph.nodes[1].params.days = 2
    /\ HashDigits(Recipient(graph)) # <<>>
    /\ Recipient(graph) # Trim(Recipient(graph))
    /\ \E j \in 1..HashHexLen : HashDigits(Recipient(graph))[j] \in UpperHex

\* C10 as stated: such a graph compiles to a source with zero constructor
\* arguments and an output guard that names the literal hash.
C10_ZeroConstructorArgs ==
    (Done /\ TimeThenSend(graph) /\ DaysTrigger(graph)
          /\ HashDigits(Recipient(graph)) # <<>>) =>
        /\ IsSuccess
        /\ result.constructorArgs = <<>>
        /\ \E q \in 1..Len(result.source) :
              \E j \in 1..Len(result.source[q]) : result.source[q][j] = "0x"

\* ---- C11 ----
BadRecipient(n) ==
    /\ n.type \in {"SEND_BCH", "SEND_TOKEN"}
    /\ Has(NormalizeRecipientHash(Get(n.params, "recipientHash", Undefined)), "error")

RecipientMessage(n) ==
    NormalizeRecipientHash(Get(n.params, "recipientHash", Undefined)).error

BadPlaces(nodes) == {i \in 1..Len(nodes) : BadRecipient(nodes[i])}

FirstBad(nodes) == CHOOSE i \in BadPlaces(nodes) : \A j \in BadPlaces(nodes) : i <= j

\* C11: when a reachable SEND_BCH or SEND_TOKEN node has a recipient the
\* normalisation helper rejects, compile returns an error result (empty
\* source, no constructor arguments) whose error is exactly the helper's
\* message for the first such node in sequence order.
C11_FirstBadRecipientReported ==
    (Done /\ BadPlaces(sortNodes(graph)) # {}) =>
        /\ result = [source |-> EmptyText, constructorArgs |-> <<>>,
                     error |-> RecipientMessage(sortNodes(graph)[FirstBad(sortNodes(graph))])]

\* two reachable nodes with rejected recipients and different messages; the
\* first one's message is reported
C11_Witness ==
    /\ Done
    /\ Cardinality(BadPlaces(sortNodes(graph))) >= 2
    /\ \E i \in BadPlaces(sortNodes(graph)) :
           RecipientMessage(sortNodes(graph)[i])
               # RecipientMessage(sortNodes(graph)[FirstBad(sortNodes(graph))])
    /\ IsError
    /\ result.error = RecipientMessage(sortNodes(graph)[FirstBad(sortNodes(graph))])
    /\ result.error = Str(<<"Recipient hash must be 20 bytes (hash160) for P2PKH outputs">>)

\* ---- C12 ----
\* the digits of a string written as a raw hash: the string without its
\* optional 0x prefix
RawDigits(t) ==
    IF Len(t) >= 2 /\ t[1] = "0" /\ t[2] = "x" THEN SubSeq(t, 3, Len(t)) ELSE t

IsHexString(d) == Len(d) > 0 /\ \A i \in 1..Len(d) : d[i] \in HexDigits

RecipientsOf(g) ==
    {g.nodes[i].params["recipientHash"] :
        i \in {j \in 1..Len(g.nodes) : Has(g.nodes[j].params, "recipientHash")}}

\* C12: normalizeRecipientHash turns a recipient written as exactly 40
\* hexadecimal digits, with or without a leading 0x, into those digits
\* lower-cased, and returns no hash for a hexadecimal string of another length.
C12_RawHashBothForms ==
    Done => \A r \in RecipientsOf(graph) :
        IsHexString(RawDigits(Trim(r))) =>
            IF Len(RawDigits(Trim(r))) = HashHexLen
                THEN NormalizeRecipientHash(r) = [hex |-> ToLowerCase(RawDigits(Trim(r)))]
                ELSE ~Has(NormalizeRecipientHash(r), "hex")

\* ---- C13 ----
NoActionReachable(g) ==
    \A i \in 1..Len(g.nodes) :
        g.nodes[i].category = "action" => g.nodes[i].id \notin Reach(g)

\* C13: a graph in which no Action-category node is reachable from the root
\* compiles to an error and an empty source, even when its node set holds
\* Action nodes that are unreachable.
C13_ActionMustBeReachable ==
    (Done /\ NoActionReachable(graph)) => (IsError /\ result.source = EmptyText)

\* ---- C14 ----
TriggerPlaces(nodes) == {i \in 1..Len(nodes) : nodes[i].category = "trigger"}

RootIsTrigger(g) == RootInNodes(g) /\ MapGet(g.nodes, g.trigger).category = "trigger"

\* C14: when compile returns without error the root is a Trigger-category
\* node and the only one in the emitted sequence; a graph whose root has
\* another category, or in which a second Trigger-category node is reachable,
\* is rejected with an error.
C14_ExactlyOneTrigger ==
    Done =>
        /\ IsSuccess =>
              /\ RootIsTrigger(graph)
              /\ Cardinality(TriggerPlaces(sortNodes(graph))) = 1
        /\ (RootInNodes(graph) /\ ~RootIsTrigger(graph)) => IsError
        /\ Cardinality(TriggerPlaces(sortNodes(graph))) >= 2 => IsError

\* ---- C15 ----
IsCompileResult(r) == Has(r, "source") /\ Has(r, "constructorArgs")

\* C15: compile returns a CompileResult for every graph, also for graphs
\* with cycles in the child lists, dangling child ids and edges to missing
\* nodes: it neither runs for ever nor throws.
C15_CompileReturns == Done => IsCompileResult(result)

\* ---- C16 ----
\* the parameters of the unlock function as the source text has them: the
\* tokens of the header line between "function execute(" and ") {"
FunctionLine(src) ==
    src[CHOOSE i \in 1..Len(src) : Len(src[i]) >= 2 /\ src[i][2] = "function execute("]

Parameters(src) == SubSeq(FunctionLine(src), 3, Len(FunctionLine(src)) - 2)

TypePlaces(nodes, t) == {i \in 1..Len(nodes) : nodes[i].type = t}

LastPlace(S) == CHOOSE i \in S : \A j \in S : j <= i

\* the `required` of the MULTISIG_SIGNED node (of the last one in the
\* sequence when there are several), 2 when the node does not set it
RequiredSigs(nodes) ==
    Get(nodes[LastPlace(TypePlaces(nodes, "MULTISIG_SIGNED"))].params, "required", 2)

RECURSIVE SigParameters(_)
SigParameters(n) ==
    IF n <= 0 THEN <<>>
    ELSE IF n = 1 THEN <<"sig ", "s0">>
    ELSE SigParameters(n - 1) \o <<", ", "sig ", "s" \o ToString(n - 1)>>

ExpectedParameters(nodes) ==
    (IF TypePlaces(nodes, "HASH_LOCK") # {} THEN <<"bytes ", "preimage", ", ">> ELSE <<>>)
    \o (IF TypePlaces(nodes, "MULTISIG_SIGNED") # {}
            THEN SigParameters(RequiredSigs(nodes))
        ELSE IF \E i \in 1..Len(nodes) :
                    nodes[i].category = "action" \/ nodes[i].type = "CHECK_ADDRESS"
            THEN <<"sig ", "s", ", ", "pubkey ", "pk">>
        ELSE <<"pubkey ", "pk">>)

\* C16: the parameters of the unlock function follow this precedence over
\* the emitted sequence: with a MULTISIG_SIGNED node, `required` signatures
\* s0..s(required-1); else with an Action or CHECK_ADDRESS node, sig s and
\* pubkey pk; else pubkey pk alone; and bytes preimage comes first exactly
\* when a HASH_LOCK node is in the sequence.
C16_ParameterPrecedence ==
    (Done /\ IsSuccess) =>
        Parameters(result.source) = ExpectedParameters(sortNodes(graph))

\* a hash lock, a multi-signature of three and an action together
C16_Witness ==
    /\ Done /\ IsSuccess
    /\ TypePlaces(sortNodes(graph), "HASH_LOCK") # {}
    /\ \E i \in 1..Len(sortNodes(graph)) : sortNodes(graph)[i].category = "action"
    /\ Parameters(result.source)
         = <<"bytes ", "preimage", ", ", "sig ", "s0", ", ", "sig ", "s1", ", ", "sig ", "s2">>

\* ---- C17 ----
SigGuard == <<"require(checkSig(", "s", ", ", "pk", "));">>

GuardCount(src) == Cardinality({i \in 1..Len(src) : Unindent(src[i]) = SigGuard})

\* the body starts with the standard signature check
StandardGuardPrepended(src) ==
    \E i \in 1..(Len(src) - 2) :
        /\ Len(src[i]) >= 2 /\ src[i][2] = "function execute("
        /\ src[i + 1] = <<I8, "// Verify signature">>
        /\ Unindent(src[i + 2]) = SigGuard

SingleSigMode(nodes) ==
    /\ TypePlaces(nodes, "MULTISIG_SIGNED") = {}
    /\ \E i \in 1..Len(nodes) :
          nodes[i].category = "action" \/ nodes[i].type = "CHECK_ADDRESS"

\* C17: the standard guard require(checkSig(s, pk)) is prepended to the body
\* exactly when the single-signature mode was chosen and no CHECK_ADDRESS
\* node of the sequence emits the same guard; a compiled source never holds
\* the guard twice, and in multi-signature mode it is never prepended.
C17_SingleStandardGuard ==
    (Done /\ IsSuccess) =>
        /\ StandardGuardPrepended(result.source)
              <=> (SingleSigMode(sortNodes(graph))
                     /\ TypePlaces(sortNodes(graph), "CHECK_ADDRESS") = {})
        /\ GuardCount(result.source) <= 1
        /\ TypePlaces(sortNodes(graph), "MULTISIG_SIGNED") # {}
              => ~StandardGuardPrepended(result.source)

\* ---- C18 ----
SortedIds(sorted) == {sorted[m].id : m \in 1..Len(sorted)}

\* the places in the child list of sorted[j] of the children that name a node
\* and are not among the first i - 1 nodes of the sequence
OpenChildren(g, sorted, j, i) ==
    {k \in 1..Len(sorted[j].children) :
        /\ sorted[j].children[k] \in Ids(g)
        /\ sorted[j].children[k] \notin SortedIds(SubSeq(sorted, 1, i - 1))}

OpenPlaces(g, sorted, i) == {j \in 1..(i - 1) : OpenChildren(g, sorted, j, i) # {}}

FirstPlace(S) == CHOOSE i \in S : \A j \in S : i <= j

\* sorted[i] is the first open child of the latest node before it that has one
PreOrderAt(g, sorted, i) ==
    /\ OpenPlaces(g, sorted, i) # {}
    /\ sorted[i].id =
         sorted[LastPlace(OpenPlaces(g, sorted, i))].children[
             FirstPlace(OpenChildren(g, sorted, LastPlace(OpenPlaces(g, sorted, i)), i))]

IsPreOrder(g, sorted) ==
    IF g.trigger = Null \/ ~RootInNodes(g) THEN sorted = <<>>
    ELSE /\ Len(sorted) >= 1
         /\ sorted[1].id = g.trigger
         /\ \A i \in 1..Len(sorted) : sorted[i] = MapGet(g.nodes, sorted[i].id)
         /\ SortedIds(sorted) = Reach(g)
         /\ Len(sorted) = Cardinality(Reach(g))
         /\ \A i \in 2..Len(sorted) : PreOrderAt(g, sorted, i)

\* C18: sortNodes returns the depth-first pre-order from the root with the
\* children taken left to right: the root first, then every node reachable
\* through child ids that name a node, each exactly once (also with diamonds
\* and cycles), no other node, and each node after the first is the first
\* child not yet taken of the latest node that still has one.
C18_DepthFirstPreOrder == Done => IsPreOrder(graph, sortNodes(graph))

\* a sequence of at least four nodes in which a node has two parents, one of
\* them its own child (a diamond closed by a cycle)
HasChild(n, id) == \E k \in 1..Len(n.children) : n.children[k] = id

C18_Witness ==
    /\ Done /\ IsPreOrder(graph, sortNodes(graph))
    /\ Len(sortNodes(graph)) >= 4
    /\ \E i, j, h \in 1..Len(sortNodes(graph)) :
          /\ i < j /\ h # j
          /\ HasChild(sortNodes(graph)[i], sortNodes(graph)[j].id)
          /\ HasChild(sortNodes(graph)[j], sortNodes(graph)[i].id)
          /\ HasChild(sortNodes(graph)[h], sortNodes(graph)[i].id)

\* ---- C19 ----
\* the error message holds the one-line message m
HoldsMessage(m) == IsError /\ Occurrences(result.error[1], m[1]) > 0

\* C19: with a non-null root, rules 2 and 3 are each reported exactly when
\* violated: the root-not-found message is in the error if and only if the
\* root id names no node, the no-action message if and only if the node set
\* has no Action node, and when both are violated the error is the first
\* message, "; ", then the second.
C19_RulesAccumulate ==
    (Done /\ graph.trigger # Null) =>
        /\ HoldsMessage(MsgTriggerNotFound) <=> ~RootInNodes(graph)
        /\ HoldsMessage(MsgNoAction) <=> NoActionNode(graph)
        /\ (~RootInNodes(graph) /\ NoActionNode(graph)) =>
              result.error = Str(MsgTriggerNotFound[1] \o <<"; ">> \o MsgNoAction[1])

\* the root names no node and there is no action: both messages
C19_Witness ==
    /\ Done /\ graph.trigger # Null
    /\ ~RootInNodes(graph) /\ NoActionNode(graph) /\ Len(graph.nodes) > 0
    /\ HoldsMessage(MsgTriggerNotFound) /\ HoldsMessage(MsgNoAction)
    /\ result.source = EmptyText

\* ---- C20 ----
\* the lines of the function body in a source text: after the header (and
\* the standard signature check when there is one), before the closing braces
BodyLines(src) ==
    LET header == CHOOSE i \in 1..Len(src) :
                      Len(src[i]) >= 2 /\ src[i][2] = "function execute("
    IN  SubSeq(src, header + 1 + (IF StandardGuardPrepended(src) THEN 3 ELSE 0),
               Len(src) - 3)

\* the number of slot-claiming actions before place i of the sequence
SlotsBefore(nodes, i) == Cardinality({j \in 1..(i - 1) : SlotClaiming(nodes[j])})

\* the lines the node at place i gives when it is emitted with that slot
FragAt(nodes, i) ==
    Frag(nodes[i], IF nodes[i].category = "action" THEN SlotsBefore(nodes, i) ELSE 0)

\* the fragments of the places from i on, a blank line between two of them;
\* a node that emits nothing leaves no trace
RECURSIVE FragsFrom(_, _, _)
FragsFrom(nodes, i, acc) ==
    IF i > Len(nodes) THEN acc
    ELSE FragsFrom(nodes, i + 1,
                   IF FragAt(nodes, i) = Flat(EmptyText) THEN acc
                   ELSE IF acc = <<>> THEN FragAt(nodes, i)
                   ELSE acc \o << <<>> >> \o FragAt(nodes, i))

NoConditional(nodes) == TypePlaces(nodes, "IF_ELSE") = {}

\* C20: in a compiled graph without conditional nodes the i-th slot-claiming
\* action of the sequence (every Action but SPLIT_PERCENT, counted from 0) is
\* emitted with output slot i and refers to that slot only; no other node
\* advances the counter: the body is the sequence's fragments, each emitted
\* with the number of slot-claiming actions before it.
C20_SlotsInSequenceOrder ==
    (Done /\ IsSuccess /\ NoConditional(sortNodes(graph))) =>
        /\ Flat(BodyLines(result.source))
             = (IF FragsFrom(sortNodes(graph), 1, <<>>) = <<>> THEN Flat(EmptyText)
                ELSE FragsFrom(sortNodes(graph), 1, <<>>))
        /\ \A i \in 1..Len(sortNodes(graph)) :
              SlotClaiming(sortNodes(graph)[i]) =>
                  SlotsOf(FragAt(sortNodes(graph), i))
                      = {ToString(SlotsBefore(sortNodes(graph), i))}

\* a trigger, an action, a split, an action: the split is emitted with the
\* counter at 1 and leaves it there for the action after it
C20_Witness ==
    /\ Done /\ IsSuccess /\ NoConditional(sortNodes(graph))
    /\ Len(sortNodes(graph)) = 4
    /\ SlotClaiming(sortNodes(graph)[2])
    /\ sortNodes(graph)[3].type = "SPLIT_PERCENT"
    /\ SlotClaiming(sortNodes(graph)[4])
    /\ SlotsOf(FragAt(sortNodes(graph), 4)) = {"1"}
    /\ SlotsOf(FragAt(sortNodes(graph), 3)) = {"1", "2"}

\* ---- C21 ----
\* the targets of the first edge of each given type that leaves node n
EdgeTargets(edges, n, types) ==
    {EdgeTo(edges, n.id, t) : t \in {u \in types : HasEdge(edges, n.id, u)}}

\* where the walk inside an arm goes on from node n: a conditional's two
\* arms and its continuation, another node's first child
ArmSuccessors(edges, n) ==
    IF n.type = "IF_ELSE"
        THEN EdgeTargets(edges, n, {"condition_true", "condition_false", "next"})
    ELSE IF Len(n.children) > 0 THEN {n.children[1]} ELSE {}

\* the least set of nodes of the sequence that holds the entries of S and
\* the arm successors of its members
RECURSIVE ArmClosure(_, _, _)
ArmClosure(nodes, edges, S) ==
    LET inSeq == S \cap SortedIds(nodes)
        more == (UNION {ArmSuccessors(edges, nodes[i]) :
                          i \in {j \in 1..Len(nodes) : nodes[j].id \in inSeq}}
                    \cap SortedIds(nodes)) \ inSeq
    IN  IF more = {} THEN inSeq ELSE ArmClosure(nodes, edges, inSeq \cup more)

\* the nodes of the sequence that are inside the THEN or ELSE arm of some
\* conditional of the sequence
InsideArms(nodes, edges) ==
    ArmClosure(nodes, edges,
               UNION {EdgeTargets(edges, nodes[i], {"condition_true", "condition_false"}) :
                         i \in TypePlaces(nodes, "IF_ELSE")})

\* the lines of a text (without indentation) that are outside every
\* if-block, each if-block reduced to its opening line
RECURSIVE TopLevelFrom(_, _, _, _)
TopLevelFrom(lines, q, depth, acc) ==
    IF q > Len(lines) THEN acc
    ELSE IF IsIfLine(lines[q])
        THEN TopLevelFrom(lines, q + 1, depth + 1,
                          IF depth = 0 THEN Append(acc, lines[q]) ELSE acc)
    ELSE IF lines[q] = CloseLine THEN TopLevelFrom(lines, q + 1, depth - 1, acc)
    ELSE TopLevelFrom(lines, q + 1, depth, IF depth = 0 THEN Append(acc, lines[q]) ELSE acc)

TopLevel(lines) == TopLevelFrom(lines, 1, 0, <<>>)

\* what the node at place i gives at the top level when the nodes of `owned`
\* are left out: a conditional its comment and opening line, another node
\* its fragment at the number of slot-claiming nodes left in before it
TopFragAt(nodes, owned, i) ==
    IF nodes[i].type = "IF_ELSE"
        THEN << <<"// LOGIC: Conditional branch">>, IfLine(nodes[i]) >>
    ELSE Frag(nodes[i],
              IF nodes[i].category = "action"
              THEN Cardinality({j \in 1..(i - 1) :
                                  SlotClaiming(nodes[j]) /\ nodes[j].id \notin owned})
              ELSE 0)

RECURSIVE TopFragsFrom(_, _, _, _)
TopFragsFrom(nodes, owned, i, acc) ==
    IF i > Len(nodes) THEN acc
    ELSE TopFragsFrom(nodes, owned, i + 1,
                      IF nodes[i].id \in owned \/ TopFragAt(nodes, owned, i) = Flat(EmptyText)
                          THEN acc
                      ELSE IF acc = <<>> THEN TopFragAt(nodes, owned, i)
                      ELSE acc \o << <<>> >> \o TopFragAt(nodes, owned, i))

ExpectedTopLevel(nodes, edges) ==
    IF TopFragsFrom(nodes, InsideArms(nodes, edges), 1, <<>>) = <<>> THEN Flat(EmptyText)
    ELSE TopFragsFrom(nodes, InsideArms(nodes, edges), 1, <<>>)

\* C21: the nodes inside the THEN or ELSE arm of a conditional (along each
\* arm's chain and, for a conditional met there, its arms and its
\* continuation) are skipped by the main loop: outside the if-blocks the
\* body holds the fragments of the other nodes of the sequence and nothing
\* else, so the code of a node inside an arm is never at the top level.
C21_ArmNodesNotAtTopLevel ==
    (Done /\ IsSuccess) =>
        TopLevel(Flat(BodyLines(result.source)))
            = ExpectedTopLevel(sortNodes(graph), graph.edges)

\* a conditional inside an arm with a block after it in that arm, and a
\* block after the outer conditional at the top level
C21_Witness ==
    /\ Done /\ IsSuccess
    /\ \E i, j \in TypePlaces(sortNodes(graph), "IF_ELSE") :
          /\ sortNodes(graph)[i].id \notin InsideArms(sortNodes(graph), graph.edges)
          /\ sortNodes(graph)[j].id \in InsideArms(sortNodes(graph), graph.edges)
          /\ HasEdge(graph.edges, sortNodes(graph)[j].id, "next")
          /\ EdgeTo(graph.edges, sortNodes(graph)[j].id, "next")
                \in InsideArms(sortNodes(graph), graph.edges)
          /\ HasEdge(graph.edges, sortNodes(graph)[i].id, "next")
          /\ EdgeTo(graph.edges, sortNodes(graph)[i].id, "next")
                \in SortedIds(sortNodes(graph)) \ InsideArms(sortNodes(graph), graph.edges)

\* ---- C22 ----
\* the parameter that carries a trigger's value
ValueKey(type) ==
    CASE type = "BCH_RECEIVED" -> "minAmount"
      [] type = "TOKEN_RECEIVED" -> "categoryHex"
      [] type = "TIME_PASSED" -> "days"
      [] type = "PRICE_ABOVE" -> "usdThreshold"
      [] type = "HASH_LOCK" -> "expectedHash"

ValueTriggers == {"BCH_RECEIVED", "TOKEN_RECEIVED", "TIME_PASSED", "PRICE_ABOVE", "HASH_LOCK"}

\* the value was left out, or (a text field) left empty
Unspecified(n) ==
    \/ ~Has(n.params, ValueKey(n.type))
    \/ n.type \in {"TOKEN_RECEIVED", "HASH_LOCK"} /\ n.params[ValueKey(n.type)] = ""

TemplateOf(n) == getBlockTemplate(n.type, n.params, n.category, 0)

ArgNames(args) == [i \in 1..Len(args) |-> args[i].name]

TextHas(text, part) == Occurrences(Tokens(text), part) > 0

ValueTriggerPlaces(nodes) ==
    {i \in 1..Len(nodes) : nodes[i].category = "trigger" /\ nodes[i].type \in ValueTriggers}

\* what the template of trigger n does with n's value
TriggerValueRule(n) ==
    CASE n.type \in {"TOKEN_RECEIVED", "HASH_LOCK"} ->
           LET name == IF n.type = "TOKEN_RECEIVED" THEN "tokenCategory" ELSE "expectedHash"
           IN  IF Unspecified(n)
               THEN /\ TemplateOf(n).constructorArgs = << [name |-> name, type |-> "bytes"] >>
                    /\ TextHas(TemplateOf(n).code, <<name, ");">>)
                    /\ ~TextHas(TemplateOf(n).code, <<"0x">>)
               ELSE /\ TemplateOf(n).constructorArgs = <<>>
                    /\ TextHas(TemplateOf(n).code,
                               <<"0x", n.params[ValueKey(n.type)], ");">>)
      [] n.type = "BCH_RECEIVED" ->
           /\ TemplateOf(n).constructorArgs = <<>>
           /\ TextHas(TemplateOf(n).code,
                      <<"require(tx.inputs[0].value >= ",
                        ToString(Get(n.params, "minAmount", 10000)), ");">>)
      [] n.type = "TIME_PASSED" ->
           /\ ArgNames(TemplateOf(n).constructorArgs) = <<"unlockTime">>
           /\ TextHas(TemplateOf(n).code, <<"require(tx.time >= ", "unlockTime", ");">>)
      [] n.type = "PRICE_ABOVE" ->
           /\ ArgNames(TemplateOf(n).constructorArgs) = <<"oraclePrice">>
           /\ TextHas(TemplateOf(n).code,
                      <<"require(", "oraclePrice", " >= ",
                        ToString(Get(n.params, "usdThreshold", 500)), ");">>)

\* C22 (amended): TOKEN_RECEIVED and HASH_LOCK inline their value when it
\* is set and return no constructor argument, and refer to a constructor
\* argument (tokenCategory, expectedHash) which they return when it is not;
\* BCH_RECEIVED never returns an argument and inlines its value or 10000;
\* TIME_PASSED always guards on the argument unlockTime, which it returns;
\* PRICE_ABOVE inlines its threshold or 500 and always returns oraclePrice.
\* On success every returned argument is a constructor argument of the result.
C22_TriggerValueRules ==
    Done =>
        \A i \in ValueTriggerPlaces(sortNodes(graph)) :
            /\ TriggerValueRule(sortNodes(graph)[i])
            /\ IsSuccess =>
                  \A a \in 1..Len(TemplateOf(sortNodes(graph)[i]).constructorArgs) :
                      \E r \in 1..Len(result.constructorArgs) :
                          result.constructorArgs[r].name
                              = TemplateOf(sortNodes(graph)[i]).constructorArgs[a].name

\* a time trigger whose value is set, which returns unlockTime all the same,
\* and a BCH trigger without value, which returns no argument
C22_Witness ==
    /\ Done /\ IsSuccess
    /\ \E i, j \in ValueTriggerPlaces(sortNodes(graph)) :
          /\ sortNodes(graph)[i].type = "TIME_PASSED"
          /\ ~Unspecified(sortNodes(graph)[i])
          /\ sortNodes(graph)[j].type = "BCH_RECEIVED"
          /\ Unspecified(sortNodes(graph)[j])
    /\ ArgNames(result.constructorArgs)[1] = "unlockTime"

\* C22 as stated: a trigger's template returns a constructor argument for
\* the trigger's value if and only if the value parameter is unspecified.
C22_ArgumentIffUnspecified ==
    Done =>
        \A i \in ValueTriggerPlaces(sortNodes(graph)) :
            (TemplateOf(sortNodes(graph)[i]).constructorArgs # <<>>)
                <=> Unspecified(sortNodes(graph)[i])

\* ---- C23 ----
\* name0, name1, ..., name(n-1) as tokens with ", " between them
RECURSIVE NameList(_, _)
NameList(name, n) ==
    IF n <= 0 THEN <<>>
    ELSE IF n = 1 THEN <<name \o "0">>
    ELSE NameList(name, n - 1) \o <<", ", name \o ToString(n - 1)>>

\* the sequence holds one MULTISIG_SIGNED node, with both parameters set
OneMultisig(nodes) ==
    /\ Cardinality(TypePlaces(nodes, "MULTISIG_SIGNED")) = 1
    /\ Has(nodes[LastPlace(TypePlaces(nodes, "MULTISIG_SIGNED"))].params, "required")
    /\ Has(nodes[LastPlace(TypePlaces(nodes, "MULTISIG_SIGNED"))].params, "total")

TheMultisig(nodes) == nodes[LastPlace(TypePlaces(nodes, "MULTISIG_SIGNED"))]

MultisigGuard(r, n) ==
    <<"require(checkMultiSig([">> \o NameList("s", r) \o <<"], [">>
        \o NameList("pk", n) \o <<"]));">>

\* the parameters of the unlock function that are signatures
SigsDeclared(src) ==
    IF Len(Parameters(src)) >= 3 /\ Parameters(src)[1] = "bytes "
    THEN SubSeq(Parameters(src), 4, Len(Parameters(src)))
    ELSE Parameters(src)

PubkeyArgs(args) == SelectSeq(args, LAMBDA a : a.type = "pubkey")

\* C23: when the only MULTISIG_SIGNED node of the sequence has required = r
\* and total = n, its template returns the n constructor arguments
\* pk0..pk(n-1) of type pubkey, which are the public keys of the result; the
\* body's checkMultiSig guard lists s0..s(r-1) and pk0..pk(n-1); and the
\* unlock function declares the signatures s0..s(r-1) and no other.
C23_MultisigSized ==
    (Done /\ IsSuccess /\ OneMultisig(sortNodes(graph))) =>
        LET m == TheMultisig(sortNodes(graph)) IN
        /\ TemplateOf(m).constructorArgs
             = [i \in 1..m.params.total |-> [name |-> "pk" \o ToString(i - 1), type |-> "pubkey"]]
        /\ PubkeyArgs(result.constructorArgs) = TemplateOf(m).constructorArgs
        /\ Occurrences(Flat(result.source),
                       << MultisigGuard(m.params.required, m.params.total) >>) = 1
        /\ SigsDeclared(result.source) = SigParameters(m.params.required)

\* a node that requires three signatures and has two keys
C23_Witness ==
    /\ Done /\ IsSuccess /\ OneMultisig(sortNodes(graph))
    /\ TheMultisig(sortNodes(graph)).params.required = 3
    /\ TheMultisig(sortNodes(graph)).params.total = 2
    /\ Len(PubkeyArgs(result.constructorArgs)) = 2
    /\ Occurrences(Flat(result.source), << MultisigGuard(3, 2) >>) = 1

\* ---- C24 ----
ValueLogicTypes == {"AND", "OR", "COMPARE_VALUE"}

ValueLogicPlaces(nodes) ==
    {i \in 1..Len(nodes) : nodes[i].category = "logic" /\ nodes[i].type \in ValueLogicTypes}

\* the lines such a node gives
ValueLogicLines(n) ==
    CASE n.type = "AND" -> << <<"// LOGIC: AND condition">> >>
      [] n.type = "OR" -> << <<"// LOGIC: OR condition">> >>
      [] n.type = "COMPARE_VALUE" ->
           << <<"// LOGIC: Compare value">>,
              <<"require(tx.inputs[0].value ", Get(n.params, "operator", ">"), " ",
                ToString(Get(n.params, "threshold", 10000)), ");">> >>

\* C24 (amended): an AND, OR or COMPARE_VALUE node of the emitted sequence
\* that is outside every conditional's arm contributes lines to the top
\* level of the body: AND and OR a comment line, COMPARE_VALUE a comment
\* and the guard require(tx.inputs[0].value <operator> <threshold>) with the
\* defaults > and 10000; none of them contributes a constructor argument.
C24_ValueBlocksEmitCode ==
    (Done /\ IsSuccess) =>
        \A i \in ValueLogicPlaces(sortNodes(graph)) :
            /\ TemplateOf(sortNodes(graph)[i]).constructorArgs = <<>>
            /\ Flat(TemplateOf(sortNodes(graph)[i]).code) = ValueLogicLines(sortNodes(graph)[i])
            /\ sortNodes(graph)[i].id \notin InsideArms(sortNodes(graph), graph.edges) =>
                  Occurrences(TopLevel(Flat(BodyLines(result.source))),
                              ValueLogicLines(sortNodes(graph)[i])) >= 1

\* a comparison with its own operator and threshold in the main chain
C24_Witness ==
    /\ Done /\ IsSuccess
    /\ \E i \in ValueLogicPlaces(sortNodes(graph)) :
          /\ sortNodes(graph)[i].type = "COMPARE_VALUE"
          /\ Has(sortNodes(graph)[i].params, "operator")
          /\ Occurrences(Flat(BodyLines(result.source)),
                         << <<"require(tx.inputs[0].value ", ">=", " ", "600", ");">> >>) = 1

\* C24 as stated: an AND, OR or COMPARE_VALUE node of the emitted sequence
\* contributes no line to the body and no constructor argument.
C24_NoIndependentCode ==
    (Done /\ IsSuccess) =>
        \A i \in ValueLogicPlaces(sortNodes(graph)) :
            /\ TemplateOf(sortNodes(graph)[i]).constructorArgs = <<>>
            /\ Occurrences(Flat(BodyLines(result.source)),
                           ValueLogicLines(sortNodes(graph)[i])) = 0

\* ---- C25: the condition resolver ----
Connective(type) == IF type = "AND" THEN " && " ELSE " || "

\* the string a socket stands for: a comparison of the spent input's value,
\* a parenthesised conjunction or disjunction, or true
RECURSIVE Reference(_)
Reference(c) ==
    IF c.type = "COMPARE_VALUE"
    THEN "tx.inputs[0].value " \o c.operator \o " " \o ToString(c.threshold)
    ELSE IF c.type \in {"AND", "OR"}
    THEN "(" \o Reference(c.A) \o Connective(c.type) \o Reference(c.B) \o ")"
    ELSE "true"

\* the guards of the if-lines of a source text
GuardsOf(src) ==
    LET lines == Flat(src)
    IN  [q \in 1..Cardinality({i \in 1..Len(lines) : IsIfLine(lines[i])}) |->
            lines[CHOOSE i \in 1..Len(lines) :
                    /\ IsIfLine(lines[i])
                    /\ Cardinality({j \in 1..i : IsIfLine(lines[j])}) = q][2]]

\* C25: the resolver turns what is plugged into a conditional's guard socket
\* into the reference string: a comparison into tx.inputs[0].value <operator>
\* <threshold>, an AND or OR into the parenthesised && or || of its two
\* operands, an absent block or a block of another type into true; and the
\* compiler emits that string as the guard, or true when the conditional has
\* no conditionExpr.
C25_ConditionResolved ==
    Done =>
        /\ IsSuccess
        /\ extractConditionExpr(socket) = Reference(socket)
        /\ Has(graph.nodes[2].params, "conditionExpr") =>
              /\ graph.nodes[2].params.conditionExpr = Reference(socket)
              /\ GuardsOf(result.source) = <<Reference(socket)>>
        /\ ~Has(graph.nodes[2].params, "conditionExpr") =>
              GuardsOf(result.source) = <<"true">>

\* a disjunction with an empty operand inside a conjunction
C25_Witness ==
    /\ Done /\ IsSuccess
    /\ socket = AndBlock(OrBlock(CompareBlock(">", 50000), NoBlock),
                         CompareBlock("<=", 200000))
    /\ GuardsOf(result.source) =
          <<"((tx.inputs[0].value > 50000 || true) && tx.inputs[0].value <= 200000)">>

\* ---- C26: compile reads its argument only ----
\* C26: a call of compile, whether it returns a source or an error, leaves
\* the graph as it was: the root, the node list with every node's type,
\* category, parameters and child list, and the edge list.
C26_InputUnchanged ==
    [][/\ graph'.trigger = graph.trigger
       /\ graph'.nodes = graph.nodes
       /\ graph'.edges = graph.edges]_vars

\* compile has returned for a graph whose sequence differs from its node list
C26_Witness ==
    /\ Done
    /\ IsSuccess
    /\ sortNodes(graph) # graph.nodes

\* ---- C27: one output per slot-claiming action on every path ----
RECURSIVE FirstIfFrom(_, _)
FirstIfFrom(lines, q) ==
    IF q > Len(lines) THEN 0
    ELSE IF IsIfLine(lines[q]) THEN q
    ELSE FirstIfFrom(lines, q + 1)

\* the execution paths through a text (lines without indentation): at each
\* if-block one of its two arms is taken
RECURSIVE PathsOf(_)
RECURSIVE PathsThrough(_, _, _, _)
PathsThrough(lines, q, e, c) ==
    {SubSeq(lines, 1, q - 1) \o arm \o rest :
        arm \in PathsOf(SubSeq(lines, q + 1, e - 1)) \cup PathsOf(SubSeq(lines, e + 1, c - 1)),
        rest \in PathsOf(SubSeq(lines, c + 1, Len(lines)))}

PathsAt(lines, q, e) == PathsThrough(lines, q, e, FindAtDepth(lines, e + 1, 0, CloseLine))

PathsOf(lines) ==
    IF FirstIfFrom(lines, 1) = 0 THEN {lines}
    ELSE PathsAt(lines, FirstIfFrom(lines, 1),
                 FindAtDepth(lines, FirstIfFrom(lines, 1) + 1, 0, ElseLine))

\* the first line of the fragment of a slot-claiming action
IsClaimHeader(line) ==
    /\ line # <<>>
    /\ line[1] \in {"// ACTION: Send BCH to recipient", "// ACTION: Send token to recipient",
                    "// ACTION: Time lock output for ", "// ACTION: Send back to contract"}

\* the slot the fragment that starts at line q guards
SlotAfter(path, q) == SlotSeq(SubSeq(path, q, Len(path)))[1]

SharedSlots(path) ==
    {pair \in (1..Len(path)) \X (1..Len(path)) :
        /\ pair[1] < pair[2]
        /\ IsClaimHeader(path[pair[1]])
        /\ IsClaimHeader(path[pair[2]])
        /\ SlotAfter(path, pair[1]) = SlotAfter(path, pair[2])}

\* C27: along every path through the emitted body (one arm of each
\* if/else), no two slot-claiming actions guard the same output index; an
\* action that follows a conditional has a slot that no action in the arms
\* of that conditional uses.
C27_OneOutputPerAction ==
    (Done /\ IsSuccess) =>
        \A path \in PathsOf(Flat(BodyLines(result.source))) : SharedSlots(path) = {}

\* ---- C28: the source declares every name it refers to ----
\* the names the templates and the function header use
SourceNames ==
    {"recipientHash", "tokenCategory", "unlockTime", "oraclePrice", "expectedHash",
     "preimage", "s", "pk"}
    \cup {"s" \o ToString(i) : i \in 0..MaxKeys}
    \cup {"pk" \o ToString(i) : i \in 0..MaxKeys}

FunctionAt(src) ==
    CHOOSE i \in 1..Len(src) : Len(src[i]) >= 2 /\ src[i][2] = "function execute("

NamesIn(text) == {Tokens(text)[i] : i \in 1..Len(Tokens(text))} \cap SourceNames

\* the constructor parameters and the parameters of the unlock function
DeclaredNames(src) == NamesIn(SubSeq(src, 1, FunctionAt(src)))

\* the names the statements of the unlock function refer to
ReferencedNames(src) == NamesIn(SubSeq(src, FunctionAt(src) + 1, Len(src)))

\* C28: every name the body of a compiled source refers to is a constructor
\* parameter of the contract or a parameter of the unlock function, for every
\* combination of block types.
C28_SourceClosed ==
    (Done /\ IsSuccess) => ReferencedNames(result.source) \subseteq DeclaredNames(result.source)

\* ---- C29: no node of the sequence is dropped ----
\* node n is in a text (lines without indentation): a conditional by its
\* opening line, another node by its fragment at some slot
EmittedIn(lines, n, slots) ==
    IF n.type = "IF_ELSE" THEN Occurrences(lines, <<IfLine(n)>>) >= 1
    ELSE \E k \in slots : Occurrences(lines, Frag(n, k)) >= 1

\* the nodes of a sequence that must show in the body: the conditionals and
\* the nodes whose template gives code
EmittingPlaces(nodes) ==
    {i \in 1..Len(nodes) :
        nodes[i].type = "IF_ELSE" \/ TemplateOf(nodes[i]).code # EmptyText}

\* C29: when compile succeeds, every node of the sequence whose template
\* gives code has its fragment in the body at least once, and every
\* conditional of the sequence has its wrapper in the body, also for graphs
\* with diamonds or cycles that pass validation.
C29_NothingDropped ==
    (Done /\ IsSuccess) =>
        \A i \in EmittingPlaces(sortNodes(graph)) :
            EmittedIn(Flat(BodyLines(result.source)), sortNodes(graph)[i],
                      0..Len(graph.nodes))

\* ---- C30: the deployment history ----
IdsOf(list) == {list[i].id : i \in 1..Len(list)}

HistoryBounded ==
    \A network \in Networks :
        /\ Len(loadDeployments(storage, network)) <= HistoryLimit
        /\ Cardinality(IdsOf(loadDeployments(storage, network)))
              = Len(loadDeployments(storage, network))

\* what saving record did to the list old of its network, giving now
SavedInto(old, now, record) ==
    IF record.id \in IdsOf(old)
    THEN /\ Len(now) = Len(old)
         /\ \A i \in 1..Len(old) :
               now[i] = IF old[i].id = record.id THEN record ELSE old[i]
    ELSE /\ Len(now) = (IF Len(old) < HistoryLimit THEN Len(old) + 1 ELSE HistoryLimit)
         /\ now[1] = record
         /\ \A i \in 2..Len(now) : now[i] = old[i - 1]

SaveEffect ==
    IF call'.network = "" THEN storage' = storage
    ELSE /\ SavedInto(loadDeployments(storage, call'.network),
                      loadDeployments(storage', call'.network), call')
         /\ \A network \in Networks \ {call'.network} :
               loadDeployments(storage', network) = loadDeployments(storage, network)

\* C30: starting from empty storage, after any sequence of saves the list of
\* each network holds at most 20 records and no two records with one id; a
\* save of a record whose id is stored replaces that record in place, a save
\* of a new id puts the record first, a record with an empty network is
\* ignored, and a save for one network leaves the other networks' lists as
\* they were.
C30_DeploymentHistory == []HistoryBounded /\ [][SaveEffect]_vars

\* more records were saved than the history keeps, one of the records kept
\* was replaced in place, and both networks have a history
C30_Witness ==
    /\ created > HistoryLimit
    /\ Len(loadDeployments(storage, "CHIPNET")) = HistoryLimit
    /\ \E i \in 2..HistoryLimit :
          loadDeployments(storage, "CHIPNET")[i].address = MovedAddress
    /\ loadDeployments(storage, "MAINNET") # <<>>

=============================================================================
